---- MODULE Spec2Model ----
(***************************************************************************)
(* A model of langgraph_cua: the run-report aggregator (report.py), the    *)
(* Playwright action executor and session client (browser_adapter.py) and  *)
(* the provisioning node (nodes/create_vm_instance.py).                    *)
(*                                                                         *)
(* Python's Optional[T] is modelled as a sequence of length <= 1: None is  *)
(* <<>> and a present value v is <<v>>, so that "", [] and 0 stay distinct *)
(* from None, as they are in the code.                                     *)
(***************************************************************************)
EXTENDS Integers, Sequences, FiniteSets, TLC

VARIABLES
    clock,              \* the value datetime.now() returns next
    _report,             \* CUAReportGenerator._report            (Optional[CUAReport])
    _last_action_time,   \* CUAReportGenerator._last_action_time  (Optional[datetime])
    last_call,          \* the last call made on the generator and its arguments
    request,            \* BrowserInstance._computer_async: the arguments of the call
    events,             \* the operations the call has completed on the page, in order
    outcome,            \* "pending", "response" (a ComputerResponse) or the error raised
    faults,             \* the errors the page operations of the call raised, in order
    key_in,             \* the key names passed to _map_key so far, in call order
    key_out,            \* what _map_key returned for each of them
    final_state,        \* the state of the graph: instance_id and the message history
    state_report,       \* what generate_report_from_state(final_state) returned
    _client_instance,    \* browser_adapter._client_instance  (Optional[PlaywrightClient])
    prov_call,          \* the last call on the client or on a session, and its arguments
    prov_result,        \* what that call returned, or the error it raised
    script,             \* the calls a caller of the generator is going to make in one run
    exported,           \* what CUAReport.to_dict() returned  (Optional[dict])
    updates,            \* the updates graph.astream() has yielded so far, in order
    stream_report,      \* what from_stream_updates(updates) returned
    stream_error,       \* the error from_stream_updates(updates) raised  (Optional[str])
    pc,                 \* get_playwright_client: where each calling thread is in its call
    headless_arg,       \* get_playwright_client: the headless argument of each thread's call
    constructed,        \* the PlaywrightClient objects constructed so far, in order
    client_ref,         \* which of them _client_instance refers to (0 for None)
    handed_out,         \* the objects get_playwright_client has returned to a caller
    heap,               \* the CUAReport objects constructed so far, in order
    report_ref,         \* which of them self._report refers to (0 for None)
    ppc,                \* record_action: where each producer thread is in its call
    regs                \* record_action: the arguments and local variables of each producer

reportVars == <<clock, _report, _last_action_time, last_call>>
execVars == <<request, events, outcome, faults>>
keyVars == <<key_in, key_out>>
stateVars == <<final_state, state_report>>
provVars == <<_client_instance, prov_call, prov_result>>
runVars == <<script, exported>>
streamVars == <<updates, stream_report, stream_error>>
singletonVars == <<pc, headless_arg, constructed, client_ref, handed_out>>
producerVars == <<heap, report_ref, ppc, regs>>
vars == <<reportVars, execVars, keyVars, stateVars, provVars, runVars, streamVars,
          singletonVars, producerVars>>
\* what the operations of one component leave alone
nonReportVars == <<execVars, keyVars, stateVars, provVars, runVars, streamVars, singletonVars, producerVars>>
nonExecVars == <<reportVars, keyVars, stateVars, provVars, runVars, streamVars, singletonVars, producerVars>>
nonKeyVars == <<reportVars, execVars, stateVars, provVars, runVars, streamVars, singletonVars, producerVars>>
nonStateVars == <<reportVars, execVars, keyVars, provVars, runVars, streamVars, singletonVars, producerVars>>
nonProvVars == <<reportVars, execVars, keyVars, stateVars, runVars, streamVars, singletonVars, producerVars>>
nonRunVars == <<execVars, keyVars, stateVars, provVars, streamVars, singletonVars, producerVars>>
nonStreamVars == <<reportVars, execVars, keyVars, provVars, runVars, singletonVars, producerVars>>

None == <<>>
Some(v) == <<v>>
IsNone(o) == o = <<>>
Get(o) == o[1]

nonSingletonVars ==
    <<reportVars, execVars, keyVars, stateVars, prov_call, prov_result, runVars, streamVars,
      producerVars>>
nonProducerVars ==
    <<clock, last_call, execVars, keyVars, stateVars, provVars, runVars, streamVars,
      singletonVars>>

----------------------------------------------------------------------------
(* Bounds of the model *)

\* the clock runs over 0..MaxClock
MaxClock == 1
\* a report holds at most MaxActions records
MaxActions == 2
\* a drag path holds at most MaxPath points
MaxPath == 3
\* a press_key request holds at most MaxKeys keys
MaxKeys == 2
\* _map_key is called at most MaxTranslations times in a run
MaxTranslations == 2
\* the message history of a run holds at most MaxMessages messages
MaxMessages == 3
\* at most MaxSessions browser sessions are started in a run
MaxSessions == 2
\* the model issues at most MaxCalls computer calls in a streamed run
MaxCalls == 2
\* a stream of arbitrary updates holds at most MaxUpdates updates
MaxUpdates == 3
\* at most MaxThreads threads call get_playwright_client
MaxThreads == 2
\* at most MaxProducers threads call record_action on one generator
MaxProducers == 2
\* a scripted run of the generator makes at most MaxRun record_action calls
MaxRun == 3

----------------------------------------------------------------------------
(* report.py: ActionStatus, ActionRecord, CUAReport *)

SUCCESS == "success"
FAILED == "failed"
SKIPPED == "skipped"
ActionStatus == {SUCCESS, FAILED, SKIPPED}

\* truthiness of an Optional[str]: None and "" are falsy
TruthyStr(o) == ~IsNone(o) /\ Get(o) # ""

ActionRecord(action_type, call_id, status, timestamp, details, error, duration_ms) ==
    [action_type |-> action_type,
     call_id     |-> call_id,
     status      |-> status,
     timestamp   |-> timestamp,
     details     |-> details,
     error       |-> error,
     duration_ms |-> duration_ms]

\* CUAReport(start_time=t): the dataclass defaults
CUAReport(t) ==
    [start_time         |-> t,
     end_time           |-> None,
     total_actions      |-> 0,
     successful_actions |-> 0,
     failed_actions     |-> 0,
     skipped_actions    |-> 0,
     actions            |-> <<>>,
     instance_id        |-> None,
     final_status       |-> "unknown",
     error_summary      |-> <<>>]

\* f"{action.action_type}: {action.error}"
ErrorLine(action_type, error) == action_type \o ": " \o error

\* a slip in add_action: the else branch does not count the skipped record
add_action_skipped_uncounted(r, action) ==
    LET r1 == [r EXCEPT !.actions = Append(@, action),
                        !.total_actions = @ + 1]
    IN  IF action.status = SUCCESS
        THEN [r1 EXCEPT !.successful_actions = @ + 1]
        ELSE IF action.status = FAILED
        THEN LET r2 == [r1 EXCEPT !.failed_actions = @ + 1]
             IN  IF TruthyStr(action.error)
                 THEN [r2 EXCEPT !.error_summary =
                           Append(@, ErrorLine(action.action_type, Get(action.error)))]
                 ELSE r2
        ELSE r1

\* CUAReport.add_action
add_action(r, action) ==
    LET r1 == [r EXCEPT !.actions = Append(@, action),
                        !.total_actions = @ + 1]
    IN  IF action.status = SUCCESS
        THEN [r1 EXCEPT !.successful_actions = @ + 1]
        ELSE IF action.status = FAILED
        THEN LET r2 == [r1 EXCEPT !.failed_actions = @ + 1]
             IN  IF TruthyStr(action.error)
                 THEN [r2 EXCEPT !.error_summary =
                           Append(@, ErrorLine(action.action_type, Get(action.error)))]
                 ELSE r2
        ELSE [r1 EXCEPT !.skipped_actions = @ + 1]

----------------------------------------------------------------------------
(* report.py: CUAReportGenerator, the live aggregator *)

\* the argument values the model draws from
ActionTypes == {"click", "type_text"}
CallIds == {"call_123"}
NoDetails == {}
DetailsArgs == {None}
ErrorArgs == {None, Some(""), Some("Failed to type")}
StatusArgs == {None} \cup {Some(s) : s \in ActionStatus}
FinishStatusArgs == {"completed", "completed_with_errors"}
InstanceIdArgs == {None, Some("abc-123")}

\* datetime.now() is non-decreasing; time may pass between any two reads
Tick ==
    /\ clock < MaxClock
    /\ clock' = clock + 1
    /\ UNCHANGED <<_report, _last_action_time, last_call, nonReportVars>>

\* CUAReportGenerator.start
start ==
    /\ _report' = Some(CUAReport(clock))
    /\ _last_action_time' = Some(clock)
    /\ last_call' = [op |-> "start"]
    /\ UNCHANGED <<clock, nonReportVars>>

\* a slip in the status default: every error that is not None fails the record,
\* the empty string included
RecordStatusEmptyErrorFails(error, status) ==
    IF IsNone(status)
    THEN (IF ~IsNone(error) THEN FAILED ELSE SUCCESS)
    ELSE Get(status)

\* status = FAILED if error else SUCCESS, unless an explicit status is given
RecordStatus(error, status) ==
    IF IsNone(status)
    THEN (IF TruthyStr(error) THEN FAILED ELSE SUCCESS)
    ELSE Get(status)

\* CUAReportGenerator.record_action
record_action(action_type, call_id, details, error, status) ==
    LET started == IF IsNone(_report) THEN CUAReport(clock) ELSE Get(_report)
        lat     == IF IsNone(_report) THEN Some(clock) ELSE _last_action_time
        now     == clock
        \* a datetime is always truthy, so only None skips the duration
        dur     == IF IsNone(lat) THEN None ELSE Some((now - Get(lat)) * 1000)
        action  == ActionRecord(action_type, call_id, RecordStatus(error, status), now,
                                IF IsNone(details) THEN NoDetails ELSE Get(details),
                                error, dur)
    IN  /\ _report' = Some(add_action(started, action))
        /\ _last_action_time' = Some(now)
        /\ last_call' = [op |-> "record_action", error |-> error, status |-> status]
        /\ UNCHANGED <<clock, nonReportVars>>

\* CUAReportGenerator.finish
finish(status, instance_id) ==
    /\ _report' = IF IsNone(_report)
                 THEN _report
                 ELSE Some([Get(_report) EXCEPT !.end_time = Some(clock),
                                               !.final_status = status,
                                               !.instance_id = instance_id])
    /\ last_call' = [op |-> "finish", final_status |-> status, instance_id |-> instance_id]
    /\ UNCHANGED <<clock, _last_action_time, nonReportVars>>

\* the number of records the report holds (none before a report exists)
Recorded == IF IsNone(_report) THEN 0 ELSE Len(Get(_report).actions)

\* CUAReportGenerator.__init__
GeneratorInit ==
    /\ clock = 0
    /\ _report = None
    /\ _last_action_time = None
    /\ last_call = [op |-> "init"]

\* no call on a browser instance is in progress
ExecIdle ==
    /\ request = None
    /\ events = <<>>
    /\ outcome = "pending"
    /\ faults = <<>>

\* _map_key has not been called
KeysIdle ==
    /\ key_in = <<>>
    /\ key_out = <<>>

\* a run whose graph state is still empty
StateInit ==
    /\ final_state = [instance_id |-> None, messages |-> <<>>]
    /\ state_report = None

\* the module has been imported: no client exists, nothing has been called
ProvInit ==
    /\ _client_instance = None
    /\ prov_call = [op |-> "init", instance_id |-> None, environment |-> None,
                    timeout_hours |-> None, headless |-> FALSE, url |-> <<>>]
    /\ prov_result = [error |-> None, value |-> {}]

\* no run has been scripted and to_dict has not been called
RunIdle ==
    /\ script = [records |-> <<>>, final_status |-> "completed", instance_id |-> None]
    /\ exported = None

\* the graph has streamed nothing and from_stream_updates has not been called
StreamIdle ==
    /\ updates = <<>>
    /\ stream_report = None
    /\ stream_error = None

\* the threads of the process
Threads == 1..MaxThreads

\* the producer threads of a generator
Producers == 1..MaxProducers

\* the locals of a record_action call: the error argument, the ActionRecord
\* built, the report object add_action runs on and the counter value read
NoRegs ==
    [error |-> None,
     action |-> ActionRecord("", "", SUCCESS, 0, NoDetails, None, None),
     target |-> 0,
     tmp |-> 0]

\* no producer is inside record_action and no report object exists
ProducersIdle ==
    /\ heap = <<>>
    /\ report_ref = 0
    /\ ppc = [t \in Producers |-> "idle"]
    /\ regs = [t \in Producers |-> NoRegs]

\* no thread is inside get_playwright_client and no client has been constructed
SingletonIdle ==
    /\ pc = [t \in Threads |-> "idle"]
    /\ headless_arg = [t \in Threads |-> FALSE]
    /\ constructed = <<>>
    /\ client_ref = 0
    /\ handed_out = {}

Init ==
    /\ GeneratorInit
    /\ ExecIdle
    /\ KeysIdle
    /\ StateInit
    /\ ProvInit
    /\ RunIdle
    /\ StreamIdle
    /\ SingletonIdle
    /\ ProducersIdle

----------------------------------------------------------------------------
(* browser_adapter.py: BrowserInstance, the action executor *)

\* truthiness of an Optional[list] argument: None and [] are falsy
TruthySeq(o) == ~IsNone(o) /\ Get(o) # <<>>

\* the operations on self._page
MouseClick(x, y, button, click_count) == <<"mouse.click", x, y, button, click_count>>
MouseDblclick(x, y) == <<"mouse.dblclick", x, y>>
MouseMove(x, y) == <<"mouse.move", x, y>>
MouseDown == <<"mouse.down">>
MouseUp == <<"mouse.up">>
MouseWheel(dx, dy) == <<"mouse.wheel", dx, dy>>
KeyboardType(text) == <<"keyboard.type", text>>
KeyboardPress(key) == <<"keyboard.press", key>>
_take_screenshot == <<"page.screenshot">>

\* the key_map literal of _map_key
key_map ==
    [Return    |-> "Enter",
     BackSpace |-> "Backspace",
     Escape    |-> "Escape",
     Tab       |-> "Tab",
     Delete    |-> "Delete",
     Insert    |-> "Insert",
     Home      |-> "Home",
     End       |-> "End",
     Page_Up   |-> "PageUp",
     Page_Down |-> "PageDown",
     Up        |-> "ArrowUp",
     Down      |-> "ArrowDown",
     Left      |-> "ArrowLeft",
     Right     |-> "ArrowRight",
     Meta_L    |-> "Meta",
     Alt_L     |-> "Alt",
     Caps_Lock |-> "CapsLock",
     slash     |-> "/",
     backslash |-> "\\"]

\* a slip in _map_key: key_map.get(key) with an empty default instead of the key
_map_key_drops_unknown(key) ==
    IF key \in DOMAIN key_map THEN key_map[key] ELSE ""

\* BrowserInstance._map_key: key_map.get(key, key)
_map_key(key) ==
    IF key \in DOMAIN key_map THEN key_map[key] ELSE key

\* what a branch of _computer_async does: the page operations it awaits, or the
\* error it raises before any of them
Ok(ops) == [error |-> None, ops |-> ops]
Raise(e) == [error |-> Some(e), ops |-> <<>>]

\* x, y = coordinates[0], coordinates[1]: IndexError on a list of one element
HasXY(coordinates) == Len(coordinates) >= 2

\* the click_mouse branch
ClickBranch(req) ==
    IF TruthySeq(req.coordinates)
    THEN LET c == Get(req.coordinates)
             pw_button == IF req.button = Some("right") THEN "right"
                          ELSE IF req.button = Some("middle") THEN "middle"
                          ELSE "left"
             \* num_clicks or 1
             click_count == IF IsNone(req.num_clicks) \/ Get(req.num_clicks) = 0
                            THEN 1 ELSE Get(req.num_clicks)
         IN  IF HasXY(c)
             THEN Ok(<< MouseClick(c[1], c[2], pw_button, click_count) >>)
             ELSE Raise("IndexError")
    ELSE Ok(<<>>)

\* the double_click branch
DoubleClickBranch(req) ==
    IF TruthySeq(req.coordinates)
    THEN LET c == Get(req.coordinates)
         IN  IF HasXY(c) THEN Ok(<< MouseDblclick(c[1], c[2]) >>) ELSE Raise("IndexError")
    ELSE Ok(<<>>)

\* the move_mouse branch
MoveBranch(req) ==
    IF TruthySeq(req.coordinates)
    THEN LET c == Get(req.coordinates)
         IN  IF HasXY(c) THEN Ok(<< MouseMove(c[1], c[2]) >>) ELSE Raise("IndexError")
    ELSE Ok(<<>>)

\* a slip in the drag_mouse branch: the pointer jumps from the first point to the
\* last, the intermediate points are not visited
DragBranchSkipsIntermediate(req) ==
    IF TruthySeq(req.path) /\ Len(Get(req.path)) >= 2
    THEN LET path == Get(req.path)
         IN  Ok(<< MouseMove(path[1][1], path[1][2]), MouseDown,
                   MouseMove(path[Len(path)][1], path[Len(path)][2]), MouseUp >>)
    ELSE Ok(<<>>)

\* the drag_mouse branch
DragBranch(req) ==
    IF TruthySeq(req.path) /\ Len(Get(req.path)) >= 2
    THEN LET path == Get(req.path)
         IN  Ok(<< MouseMove(path[1][1], path[1][2]), MouseDown >>
                 \o [i \in 1..(Len(path) - 1) |-> MouseMove(path[i + 1][1], path[i + 1][2])]
                 \o << MouseUp >>)
    ELSE Ok(<<>>)

\* the type_text branch
TypeBranch(req) ==
    IF TruthyStr(req.text) THEN Ok(<< KeyboardType(Get(req.text)) >>) ELSE Ok(<<>>)

\* the press_key branch
PressBranch(req) ==
    IF TruthySeq(req.keys)
    THEN Ok([i \in 1..Len(Get(req.keys)) |-> KeyboardPress(_map_key(Get(req.keys)[i]))])
    ELSE Ok(<<>>)

\* the scroll branch; delta_x or 0
ScrollBranch(req) ==
    IF TruthySeq(req.coordinates) /\ (~IsNone(req.delta_x) \/ ~IsNone(req.delta_y))
    THEN LET c == Get(req.coordinates)
         IN  IF HasXY(c)
             THEN Ok(<< MouseMove(c[1], c[2]),
                        MouseWheel(IF IsNone(req.delta_x) THEN 0 ELSE Get(req.delta_x),
                                   IF IsNone(req.delta_y) THEN 0 ELSE Get(req.delta_y)) >>)
             ELSE Raise("IndexError")
    ELSE Ok(<<>>)

\* a slip in the else branch: an unrecognized action is passed over like
\* take_screenshot
ElseBranchPasses(req) == Ok(<<>>)

\* the else branch: raise ValueError(f"Unknown action: {action}")
ElseBranch(req) == Raise("ValueError: Unknown action")

\* the action kinds _computer_async dispatches on
KnownActions ==
    {"click_mouse", "double_click", "move_mouse", "drag_mouse", "type_text",
     "press_key", "scroll", "take_screenshot"}

\* the if / elif / else chain of _computer_async
Dispatch(req) ==
    CASE req.action = "click_mouse"     -> ClickBranch(req)
      [] req.action = "double_click"    -> DoubleClickBranch(req)
      [] req.action = "move_mouse"      -> MoveBranch(req)
      [] req.action = "drag_mouse"      -> DragBranch(req)
      [] req.action = "type_text"       -> TypeBranch(req)
      [] req.action = "press_key"       -> PressBranch(req)
      [] req.action = "scroll"          -> ScrollBranch(req)
      [] req.action = "take_screenshot" -> Ok(<<>>)
      [] OTHER                          -> ElseBranch(req)

\* a slip at the end of _computer_async: the capture is made only after an input
\* operation, a no-op returns without one
CaptureOnlyAfterInput(ops) == IF ops = <<>> THEN <<>> ELSE ops \o << _take_screenshot >>

\* "Always take a screenshot after the action": the capture follows the branch
WithCapture(ops) == ops \o << _take_screenshot >>

\* BrowserInstance._computer_async. Each awaited page operation may raise (the
\* transport is outside the program); fail_at is the position of the operation
\* that does, 0 for none. Nothing is caught, so the first error ends the call.
_computer_async(fail_at) ==
    /\ ~IsNone(request)
    /\ outcome = "pending"
    /\ LET branch == Dispatch(Get(request))
           ops    == WithCapture(branch.ops)
       IN  IF ~IsNone(branch.error)
           THEN /\ outcome' = Get(branch.error)
                /\ events' = events
                /\ faults' = faults
           ELSE IF fail_at \in 1..Len(ops)
           THEN /\ outcome' = "TransportError"
                /\ events' = events \o SubSeq(ops, 1, fail_at - 1)
                /\ faults' = Append(faults, "TransportError")
           ELSE /\ outcome' = "response"
                /\ events' = events \o ops
                /\ faults' = faults
    /\ UNCHANGED <<request, nonExecVars>>

\* the argument values the model draws from
Actions == KnownActions \cup {"teleport", "click"}
CoordinateArgs == {None, Some(<<>>), Some(<<5>>), Some(<<5, 7>>)}
ButtonArgs == {None, Some("right"), Some("middle")}
NumClicksArgs == {None, Some(0), Some(1), Some(2)}
TextArgs == {None, Some(""), Some("hi")}
KeyNames == {"ctrl", "a", "b", "Return"}
Points == {<<0, 0>>, <<10, 10>>, <<20, 5>>}
DeltaXArgs == {None, Some(0), Some(3)}
DeltaYArgs == {None, Some(0), Some(4)}

RECURSIVE SeqsUpTo(_, _)
\* the sequences over S of length at most n
SeqsUpTo(S, n) ==
    IF n = 0 THEN {<<>>}
    ELSE LET shorter == SeqsUpTo(S, n - 1)
         IN  shorter \cup {Append(q, x) : q \in shorter, x \in S}

KeysArgs == {None} \cup {Some(k) : k \in SeqsUpTo(KeyNames, MaxKeys)}
PathArgs == {None} \cup {Some(q) : q \in SeqsUpTo(Points, MaxPath)}

\* the defaults of the signature of computer() and _computer_async()
DefaultRequest(action) ==
    [action |-> action, coordinates |-> None, button |-> None, num_clicks |-> Some(1),
     text |-> None, keys |-> None, path |-> None, delta_x |-> None, delta_y |-> None]

\* every value of the arguments a branch reads, the others at their defaults
FocusedRequests ==
    {[DefaultRequest(a) EXCEPT !.coordinates = c, !.button = b, !.num_clicks = n] :
        a \in {"click_mouse"}, c \in CoordinateArgs, b \in ButtonArgs, n \in NumClicksArgs}
    \cup {[DefaultRequest(a) EXCEPT !.coordinates = c] :
        a \in {"double_click", "move_mouse"}, c \in CoordinateArgs}
    \cup {[DefaultRequest("drag_mouse") EXCEPT !.path = q] : q \in PathArgs}
    \cup {[DefaultRequest("type_text") EXCEPT !.text = t] : t \in TextArgs}
    \cup {[DefaultRequest("press_key") EXCEPT !.keys = k] : k \in KeysArgs}
    \cup {[DefaultRequest("scroll") EXCEPT !.coordinates = c, !.delta_x = dx, !.delta_y = dy] :
        c \in CoordinateArgs, dx \in DeltaXArgs, dy \in DeltaYArgs}

\* every action kind with every argument absent or present, in all combinations
CrossRequests ==
    [action : Actions,
     coordinates : {None, Some(<<5, 7>>)},
     button : {None, Some("right")},
     num_clicks : {None, Some(2)},
     text : {None, Some("hi")},
     keys : {None, Some(<<"ctrl", "a">>)},
     path : {None, Some(<< <<0, 0>>, <<10, 10>>, <<20, 5>> >>)},
     delta_x : {None, Some(3)},
     delta_y : {None, Some(4)}]

Requests == FocusedRequests \cup CrossRequests

\* a caller is about to call computer() with some arguments
ExecInit ==
    /\ request \in {Some(r) : r \in Requests}
    /\ events = <<>>
    /\ outcome = "pending"
    /\ faults = <<>>

InitExec ==
    /\ GeneratorInit
    /\ ExecInit
    /\ KeysIdle
    /\ StateInit
    /\ ProvInit
    /\ RunIdle
    /\ StreamIdle
    /\ SingletonIdle
    /\ ProducersIdle

\* a call awaits at most MaxPath + 3 page operations (drag: move, down, the moves,
\* up, then the capture)
NextExec == \E fail_at \in 0..(MaxPath + 3) : _computer_async(fail_at)

SpecExec == InitExec /\ [][NextExec]_vars

\* the exception classes a page operation raises: Playwright's Error, and
\* RuntimeError (asyncio raises it when the page belongs to another event loop
\* or its loop is closed)
PageErrors == {"TransportError", "RuntimeError"}

\* one run of the coroutine _computer_async(**request): the error it ends with,
\* the page operations it completed and the errors the page raised. fail_at is
\* the position of the operation that raises, 0 for none.
Attempt(req, fail_at, error) ==
    LET branch == Dispatch(req)
        ops    == WithCapture(branch.ops)
    IN  IF ~IsNone(branch.error)
        THEN [error |-> branch.error, events |-> <<>>, faults |-> <<>>]
        ELSE IF fail_at \in 1..Len(ops)
        THEN [error |-> Some(error), events |-> SubSeq(ops, 1, fail_at - 1),
              faults |-> <<error>>]
        ELSE [error |-> None, events |-> ops, faults |-> <<>>]

\* what asyncio.get_event_loop() finds in the calling thread: no loop (it raises
\* RuntimeError), a loop that is not running, or the running loop
LoopStates == {"none", "idle", "running"}

\* an error that "except RuntimeError" catches
IsRuntimeError(error) == error = Some("RuntimeError")

\* BrowserInstance.computer. The try block holds get_event_loop() and the run of
\* the coroutine (run_until_complete, or asyncio.run in a worker thread whose
\* future.result() re-raises); the handler of RuntimeError runs the coroutine
\* again with asyncio.run, which itself raises RuntimeError, before running
\* anything, when the calling thread's loop is running.
computer(loop, fail_at, error, retry_fail_at, retry_error) ==
    /\ ~IsNone(request)
    /\ outcome = "pending"
    /\ LET first  == Attempt(Get(request), fail_at, error)
           second == Attempt(Get(request), retry_fail_at, retry_error)
           done(a) == /\ outcome' = IF IsNone(a.error) THEN "response" ELSE Get(a.error)
                      /\ events' = events \o a.events
                      /\ faults' = faults \o a.faults
       IN  IF loop = "none"
           THEN done(first)
           ELSE IF ~IsRuntimeError(first.error)
           THEN done(first)
           ELSE IF loop = "running"
           THEN /\ outcome' = "RuntimeError: asyncio.run() cannot be called from a running event loop"
                /\ events' = events \o first.events
                /\ faults' = faults \o first.faults
           ELSE /\ outcome' = IF IsNone(second.error) THEN "response" ELSE Get(second.error)
                /\ events' = events \o first.events \o second.events
                /\ faults' = faults \o first.faults \o second.faults
    /\ UNCHANGED <<request, nonExecVars>>

\* a call of computer() with some loop state and some behaviour of the page
NextComputer ==
    \E loop \in LoopStates, fail_at, retry_fail_at \in 0..(MaxPath + 3),
       error, retry_error \in PageErrors :
        computer(loop, fail_at, error, retry_fail_at, retry_error)

SpecComputer == InitExec /\ [][NextComputer]_vars

----------------------------------------------------------------------------
(* browser_adapter.py: _map_key called on its own *)

\* the key names the model draws from: the names of key_map, the names it maps
\* to, other spellings of both, and names it does not hold
KeyUniverse ==
    DOMAIN key_map
    \cup {key_map[k] : k \in DOMAIN key_map}
    \cup {"return", "RETURN", "enter", "backspace", "tab", "TAB", "escape", "page_up",
          "up", "UP", "meta_l", "ctrl", "CTRL", "Control", "control", "shift", "Shift",
          "a", "A", "F1", "f1", "space", "Meta+a", ""}

\* a caller passes the key name k to _map_key
Translate(k) ==
    /\ Len(key_in) < MaxTranslations
    /\ key_in' = Append(key_in, k)
    /\ key_out' = Append(key_out, _map_key(k))
    /\ UNCHANGED nonKeyVars

\* a caller passes the name _map_key returned last to _map_key again
TranslateResult ==
    /\ key_out # <<>>
    /\ Len(key_in) < MaxTranslations
    /\ key_in' = Append(key_in, key_out[Len(key_out)])
    /\ key_out' = Append(key_out, _map_key(key_out[Len(key_out)]))
    /\ UNCHANGED nonKeyVars

NextKeys ==
    \/ \E k \in KeyUniverse : Translate(k)
    \/ TranslateResult

SpecKeys == Init /\ [][NextKeys]_vars

----------------------------------------------------------------------------
(* report.py: generate_report_from_state *)

\* one entry of additional_kwargs["tool_outputs"]: its "type", its "call_id" and
\* the "type" of its "action", each possibly missing
ToolOutput(type, call_id, action_type) ==
    [type |-> type, call_id |-> call_id, action_type |-> action_type]

\* a message of the history. has_attrs is FALSE for a message that is not a
\* message object (it has neither additional_kwargs nor type); tool_outputs,
\* kind and error are additional_kwargs' "tool_outputs", "type" and "error".
Message(has_attrs, type, tool_outputs, kind, error, tool_call_id) ==
    [has_attrs |-> has_attrs, type |-> type, tool_outputs |-> tool_outputs,
     kind |-> kind, error |-> error, tool_call_id |-> tool_call_id]

\* action_info = output.get("action", {}); the record made for a computer_call
CallRecord(output, now) ==
    ActionRecord(IF IsNone(output.action_type) THEN "unknown" ELSE Get(output.action_type),
                 IF IsNone(output.call_id) THEN "unknown" ELSE Get(output.call_id),
                 SUCCESS, now,
                 IF IsNone(output.action_type) THEN NoDetails
                 ELSE {<<"type", Get(output.action_type)>>},
                 None, None)

RECURSIVE AddCallOutputs(_, _, _, _)
\* for output in tool_outputs: if output.get("type") == "computer_call": add_action
AddCallOutputs(r, outputs, i, now) ==
    IF i > Len(outputs) THEN r
    ELSE AddCallOutputs(IF outputs[i].type = "computer_call"
                        THEN add_action(r, CallRecord(outputs[i], now))
                        ELSE r,
                        outputs, i + 1, now)

\* the positions of the records whose call_id equals the tool message's
Matching(r, call_id) ==
    {i \in 1..Len(r.actions) : Some(r.actions[i].call_id) = call_id}

\* a slip in the correction: the failure is recorded as a new record instead of
\* being written into the record of the call
MarkFailedAppends(r, call_id, error) ==
    IF Matching(r, call_id) = {} THEN r
    ELSE LET i == CHOOSE k \in Matching(r, call_id) : \A m \in Matching(r, call_id) : k <= m
         IN  add_action(r, [r.actions[i] EXCEPT !.status = FAILED, !.error = Some(error)])

\* for action in report.actions: if action.call_id == call_id: ...; break
MarkFailed(r, call_id, error) ==
    IF Matching(r, call_id) = {} THEN r
    ELSE LET i == CHOOSE k \in Matching(r, call_id) : \A m \in Matching(r, call_id) : k <= m
         IN  [r EXCEPT !.actions[i].status = FAILED,
                       !.actions[i].error = Some(error),
                       !.successful_actions = @ - 1,
                       !.failed_actions = @ + 1,
                       !.error_summary = Append(@, ErrorLine(r.actions[i].action_type, error))]

\* the body of "for message in messages"
ProcessMessage(r, message, now) ==
    LET r1 == IF message.has_attrs
              THEN AddCallOutputs(r, message.tool_outputs, 1, now)
              ELSE r
    IN  IF /\ message.has_attrs
           /\ message.type = "tool"
           /\ message.kind = Some("computer_call_output")
           /\ TruthyStr(message.error)
        THEN MarkFailed(r1, message.tool_call_id, Get(message.error))
        ELSE r1

RECURSIVE ProcessMessages(_, _, _, _)
ProcessMessages(r, messages, i, now) ==
    IF i > Len(messages) THEN r
    ELSE ProcessMessages(ProcessMessage(r, messages[i], now), messages, i + 1, now)

\* a slip in the terminal status: the failure count is not consulted
StatusIgnoresFailures(r) == "completed"

\* "completed" if report.failed_actions == 0 else "completed_with_errors"
StatusFromFailures(r) ==
    IF r.failed_actions = 0 THEN "completed" ELSE "completed_with_errors"

\* generate_report_from_state
generate_report_from_state(state, now) ==
    LET r0 == [CUAReport(now) EXCEPT !.instance_id = state.instance_id]
        r1 == ProcessMessages(r0, state.messages, 1, now)
    IN  [r1 EXCEPT !.end_time = Some(now), !.final_status = StatusFromFailures(r1)]

\* the messages the model draws from
CallC1 == ToolOutput("computer_call", Some("c1"), Some("click"))
CallC2 == ToolOutput("computer_call", Some("c2"), Some("scroll"))
CallBare == ToolOutput("computer_call", None, None)
Reasoning == ToolOutput("reasoning", None, None)
AIMessage(tool_outputs) == Message(TRUE, "ai", tool_outputs, None, None, None)
ToolMessage(kind, error, tool_call_id) == Message(TRUE, "tool", <<>>, kind, error, tool_call_id)
PlainMessage == Message(FALSE, "", <<>>, None, None, None)
Messages ==
    {AIMessage(o) : o \in {<<>>, <<CallC1>>, <<CallC2>>, <<Reasoning, CallC1>>,
                           <<CallC1, CallC2>>, <<CallBare>>}}
    \cup {ToolMessage(Some("computer_call_output"), e, Some("c1")) :
             e \in {None, Some(""), Some("E1"), Some("E2")}}
    \cup {ToolMessage(Some("computer_call_output"), Some("E1"), c) :
             c \in {None, Some("c2"), Some("unknown")}}
    \cup {ToolMessage(Some("other"), Some("E1"), Some("c1")), PlainMessage}

\* the graph appends a message to the history of the run
AppendMessage(m) ==
    /\ IsNone(state_report)
    /\ Len(final_state.messages) < MaxMessages
    /\ final_state' = [final_state EXCEPT !.messages = Append(@, m)]
    /\ UNCHANGED <<state_report, nonStateVars>>

\* the provisioning step writes the session's id into the state
SetInstanceId(id) ==
    /\ IsNone(state_report)
    /\ IsNone(final_state.instance_id)
    /\ final_state' = [final_state EXCEPT !.instance_id = Some(id)]
    /\ UNCHANGED <<state_report, nonStateVars>>

\* the run has ended and the caller asks for the report of its final state
ReportFromState ==
    /\ IsNone(state_report)
    /\ state_report' = Some(generate_report_from_state(final_state, clock))
    /\ UNCHANGED <<final_state, nonStateVars>>

NextState ==
    \/ \E m \in Messages : AppendMessage(m)
    \/ SetInstanceId("abc-123")
    \/ ReportFromState

SpecState == Init /\ [][NextState]_vars

----------------------------------------------------------------------------
(* report.py: CUAReportGenerator.from_stream_updates *)

\* an update of the stream. wrapped: it came as a (path, data) tuple; is_dict:
\* data is a dict; the other fields are data's values under the step names, None
\* for a name data does not hold. Other keys of data are never read.
Update(wrapped, is_dict, take_action, model, vm) ==
    [wrapped |-> wrapped, is_dict |-> is_dict, take_computer_action |-> take_action,
     call_model |-> model, create_vm_instance |-> vm]

\* data["take_computer_action"]: its "instance_id" and its "messages", a dict
\* with "tool_call_id" and additional_kwargs' "error", each possibly missing
TakeActionData(instance_id, messages) == [instance_id |-> instance_id, messages |-> messages]
ToolDict(tool_call_id, error) ==
    [is_dict |-> TRUE, tool_call_id |-> tool_call_id, error |-> error]
\* "messages" given as a message object: it has attributes and no get method
ToolObject == [is_dict |-> FALSE, tool_call_id |-> None, error |-> None]

\* action_data.get("messages", {})
MessagesOrEmpty(messages) == IF IsNone(messages) THEN ToolDict(None, None) ELSE Get(messages)

\* the record made for a take_computer_action update
TakeActionRecord(messages, now) ==
    ActionRecord("computer_action",
                 IF IsNone(messages.tool_call_id) THEN "unknown" ELSE Get(messages.tool_call_id),
                 IF TruthyStr(messages.error) THEN FAILED ELSE SUCCESS,
                 now, NoDetails, messages.error, None)

\* if x.get("instance_id"): report.instance_id = x["instance_id"]
WithInstanceId(r, instance_id) ==
    IF TruthyStr(instance_id) THEN [r EXCEPT !.instance_id = instance_id] ELSE r

\* a slip in the dispatch: a dict without any of the three step names is
\* recorded as a skipped action instead of being passed over
ProcessUpdateRecordsOtherSteps(r, update, now) ==
    IF ~update.is_dict THEN r
    ELSE IF ~IsNone(update.take_computer_action)
    THEN LET action_data == Get(update.take_computer_action)
         IN  add_action(WithInstanceId(r, action_data.instance_id),
                        TakeActionRecord(MessagesOrEmpty(action_data.messages), now))
    ELSE IF ~IsNone(update.call_model)
    THEN LET messages == Get(update.call_model)
         IN  IF messages.has_attrs
             THEN AddCallOutputs(r, messages.tool_outputs, 1, now)
             ELSE r
    ELSE IF ~IsNone(update.create_vm_instance)
    THEN WithInstanceId(r, Get(update.create_vm_instance))
    ELSE add_action(r, ActionRecord("unknown", "unknown", SKIPPED, now, NoDetails, None, None))

\* the body of "for update in updates"
ProcessUpdate(r, update, now) ==
    IF ~update.is_dict THEN r
    ELSE IF ~IsNone(update.take_computer_action)
    THEN LET action_data == Get(update.take_computer_action)
         IN  add_action(WithInstanceId(r, action_data.instance_id),
                        TakeActionRecord(MessagesOrEmpty(action_data.messages), now))
    ELSE IF ~IsNone(update.call_model)
    THEN LET messages == Get(update.call_model)
         IN  IF messages.has_attrs
             THEN AddCallOutputs(r, messages.tool_outputs, 1, now)
             ELSE r
    ELSE IF ~IsNone(update.create_vm_instance)
    THEN WithInstanceId(r, Get(update.create_vm_instance))
    ELSE r

RECURSIVE ProcessUpdates(_, _, _, _)
ProcessUpdates(r, stream, i, now) ==
    IF i > Len(stream) THEN r
    ELSE ProcessUpdates(ProcessUpdate(r, stream[i], now), stream, i + 1, now)

\* messages.get("additional_kwargs", {}) in the take_computer_action branch
\* raises when messages is an object without a get method
UpdateRaises(update) ==
    /\ update.is_dict
    /\ ~IsNone(update.take_computer_action)
    /\ ~MessagesOrEmpty(Get(update.take_computer_action).messages).is_dict

\* the report CUAReportGenerator.from_stream_updates returns when no update raises
from_stream_updates(stream, now) ==
    LET r1 == ProcessUpdates(CUAReport(now), stream, 1, now)
    IN  [r1 EXCEPT !.end_time = Some(now), !.final_status = StatusFromFailures(r1)]

\* the model issues a computer_call with call id c: the graph streams the
\* call_model update and then the take_computer_action update for c, and the
\* history of the run gains the AI message and the computer_call_output tool
\* message for c
ComputerCall(c, action_type, error) ==
    LET ai == AIMessage(<< ToolOutput("computer_call", Some(c), Some(action_type)) >>)
    IN  /\ IsNone(stream_report)
        /\ IsNone(stream_error)
        /\ IsNone(state_report)
        /\ Len(updates) < 2 * MaxCalls
        /\ updates' = updates \o
               << Update(TRUE, TRUE, None, Some(ai), None),
                  Update(TRUE, TRUE, Some(TakeActionData(None, Some(ToolDict(Some(c), error)))),
                         None, None) >>
        /\ final_state' = [final_state EXCEPT !.messages = @ \o
               << ai, ToolMessage(Some("computer_call_output"), error, Some(c)) >>]
        /\ UNCHANGED <<stream_report, stream_error, state_report, nonStreamVars>>

\* the caller asks for the report of the updates it collected
ReportFromStream ==
    /\ IsNone(stream_report)
    /\ IsNone(stream_error)
    /\ IF \E i \in 1..Len(updates) : UpdateRaises(updates[i])
       THEN /\ stream_error' = Some("AttributeError")
            /\ UNCHANGED stream_report
       ELSE /\ stream_report' = Some(from_stream_updates(updates, clock))
            /\ UNCHANGED stream_error
    /\ UNCHANGED <<updates, stateVars, nonStreamVars>>

\* the call ids, action kinds and errors of the calls of a streamed run
StreamCallIds == {"c1", "c2"}
StreamActionTypes == {"click", "scroll"}
StreamErrors == {None, Some(""), Some("E1")}

NextPaths ==
    \/ \E c \in StreamCallIds, t \in StreamActionTypes, e \in StreamErrors : ComputerCall(c, t, e)
    \/ ReportFromStream
    \/ ReportFromState

SpecPaths == Init /\ [][NextPaths]_vars

\* the updates a stream of the model is made of: data that is not a dict, a
\* dict without any of the three step names, and dicts of each step
NotADict == {Update(w, FALSE, None, None, None) : w \in BOOLEAN}
OtherStep == {Update(w, TRUE, None, None, None) : w \in BOOLEAN}
TakeActionUpdates ==
    {Update(TRUE, TRUE, Some(TakeActionData(i, m)), None, None) :
        i \in {None, Some("abc-123")},
        m \in {None, Some(ToolDict(Some("c1"), None)), Some(ToolDict(Some("c1"), Some("E1")))}}
    \cup {Update(TRUE, TRUE, Some(TakeActionData(Some(""), Some(ToolDict(None, Some(""))))),
                  None, None),
          Update(TRUE, TRUE, Some(TakeActionData(None, Some(ToolObject))), None, None),
          Update(FALSE, TRUE, Some(TakeActionData(None, Some(ToolDict(Some("c2"), Some("E2"))))),
                 Some(AIMessage(<<CallC1>>)), Some(Some("xyz-789")))}
CallModelUpdates ==
    {Update(TRUE, TRUE, None, Some(m), None) :
        m \in {AIMessage(<<CallC1>>), AIMessage(<<Reasoning, CallC2>>), PlainMessage}}
CreateVmUpdates ==
    {Update(TRUE, TRUE, None, None, Some(i)) : i \in {None, Some(""), Some("abc-123")}}
Updates == NotADict \cup OtherStep \cup TakeActionUpdates \cup CallModelUpdates
               \cup CreateVmUpdates

\* graph.astream() yields one more update
AppendUpdate(u) ==
    /\ IsNone(stream_report)
    /\ IsNone(stream_error)
    /\ Len(updates) < MaxUpdates
    /\ updates' = Append(updates, u)
    /\ UNCHANGED <<stream_report, stream_error, stateVars, nonStreamVars>>

NextStream ==
    \/ \E u \in Updates : AppendUpdate(u)
    \/ ReportFromStream

SpecStream == Init /\ [][NextStream]_vars

\* a caller rebuilds the report of a run from one of its two sources: either it
\* collected the stream of updates, or it kept the final state
CollectUpdate(u) ==
    /\ final_state.messages = <<>>
    /\ IsNone(final_state.instance_id)
    /\ IsNone(state_report)
    /\ AppendUpdate(u)

KeepMessage(m) ==
    /\ updates = <<>>
    /\ IsNone(stream_report)
    /\ AppendMessage(m)

KeepInstanceId(id) ==
    /\ updates = <<>>
    /\ IsNone(stream_report)
    /\ SetInstanceId(id)

NextReconstruct ==
    \/ \E u \in Updates : CollectUpdate(u)
    \/ \E m \in Messages : KeepMessage(m)
    \/ KeepInstanceId("abc-123")
    \/ ReportFromStream
    \/ ReportFromState

SpecReconstruct == Init /\ [][NextReconstruct]_vars

----------------------------------------------------------------------------
(* browser_adapter.py: PlaywrightClient; nodes/create_vm_instance.py *)

\* PlaywrightClient(headless): an empty _instances registry
PlaywrightClient(headless) == [headless |-> headless, instances |-> <<>>]

\* get_browser_client / get_playwright_client: the client the call returns, which
\* is also the value of _client_instance after it
get_playwright_client(headless) ==
    IF IsNone(_client_instance) THEN PlaywrightClient(headless) ELSE Get(_client_instance)

\* the identifiers of the sessions the registry holds (none before a client exists)
Registry ==
    IF IsNone(_client_instance) THEN {}
    ELSE {Get(_client_instance).instances[i].id : i \in 1..Len(Get(_client_instance).instances)}

\* str(uuid.uuid4()): an identifier no session has; the n-th one is named after n
NewId(client) == "uuid-" \o ToString(Len(client.instances) + 1)

\* a domain name as the sequence of the pieces str.replace looks for and the rest
BLOCKED_DOMAINS ==
    << <<"maliciousbook.com">>, <<"evilvideos.com">>, <<"darkwebforum.com">>,
       <<"shadytok.com">>, <<"suspiciouspins.com">>, <<"ilanbigio.com">> >>

\* str.replace(piece, ""): every occurrence of the piece is removed
Without(domain, piece) == SelectSeq(domain, LAMBDA part : part # piece)

\* [domain.replace("https://", "").replace("www.", "") for domain in BLOCKED_DOMAINS]
StrippedDomains(domains) ==
    [i \in 1..Len(domains) |-> Without(Without(domains[i], "https://"), "www.")]

\* PlaywrightClient._start_browser_async: the client with the new session in its
\* registry. The browser is launched with the client's headless flag;
\* timeout_hours is accepted and not used.
_start_browser_async(client, timeout_hours, blocked_domains) ==
    [client EXCEPT !.instances =
        Append(@, [id              |-> NewId(client),
                   headless        |-> client.headless,
                   blocked_domains |-> blocked_domains,
                   closed          |-> FALSE])]

\* "domain in url": the pieces of the domain occur in the URL, one after the other
Contains(url, domain) ==
    \E k \in 0..(Len(url) - Len(domain)) : SubSeq(url, k + 1, k + Len(domain)) = domain

\* a slip in the route: only the first entry of blocked_domains is looked for
AbortsOnFirstDomainOnly(blocked_domains, url) ==
    /\ TruthySeq(blocked_domains)
    /\ Contains(url, Get(blocked_domains)[1])

\* the route _start_browser_async installs "if blocked_domains": a request is
\* aborted when any(domain in url for domain in blocked_domains)
Aborts(blocked_domains, url) ==
    /\ TruthySeq(blocked_domains)
    /\ \E i \in 1..Len(Get(blocked_domains)) : Contains(url, Get(blocked_domains)[i])

\* a slip in get_stream_url: the locator does not name the session
get_stream_url_without_id(id) == "local://browser"

\* BrowserInstance.get_stream_url
get_stream_url(id) == "local://browser/" \o id

\* a slip in create_vm_instance: "ubuntu" falls back to browser mode, as the
\* docstring of start_ubuntu has it
EnvironmentBranchUbuntuFallsBack(environment) ==
    CASE environment = Some("ubuntu")  -> "start_browser"
      [] environment = Some("windows") -> "NotImplementedError"
      [] environment = Some("web")     -> "start_browser"
      [] OTHER                         -> "ValueError"

\* the if / elif / else chain of create_vm_instance on the environment
EnvironmentBranch(environment) ==
    CASE environment = Some("ubuntu")  -> "NotImplementedError"
      [] environment = Some("windows") -> "NotImplementedError"
      [] environment = Some("web")     -> "start_browser"
      [] OTHER                         -> "ValueError"

Returned(value) == [error |-> None, value |-> value]
Raised(error) == [error |-> Some(error), value |-> {}]

\* create_vm_instance(state, config): instance_id is state.get("instance_id"); the
\* other arguments are what get_configuration_with_defaults(config) holds
create_vm_instance(instance_id, environment, timeout_hours, headless) ==
    /\ prov_call' = [op |-> "create_vm_instance", instance_id |-> instance_id,
                     environment |-> environment, timeout_hours |-> timeout_hours,
                     headless |-> headless, url |-> <<>>]
    /\ IF ~IsNone(instance_id)
       THEN /\ prov_result' = Returned({})
            /\ UNCHANGED _client_instance
       ELSE LET client == get_playwright_client(headless)
                branch == EnvironmentBranch(environment)
                started == _start_browser_async(client, timeout_hours,
                                                Some(StrippedDomains(BLOCKED_DOMAINS)))
                id == NewId(client)
            IN  IF branch = "start_browser"
                THEN /\ Len(client.instances) < MaxSessions
                     /\ _client_instance' = Some(started)
                     /\ prov_result' = Returned({<<"instance_id", id>>,
                                                 <<"stream_url", get_stream_url(id)>>})
                ELSE /\ _client_instance' = Some(client)
                     /\ prov_result' = Raised(branch)
    /\ UNCHANGED nonProvVars

\* the sessions the registry holds, in the order they were registered (none
\* before a client exists)
Sessions == IF IsNone(_client_instance) THEN <<>> ELSE Get(_client_instance).instances

\* the keys of client._instances
InstanceIds(client) == {client.instances[i].id : i \in 1..Len(client.instances)}

\* a slip in get: the session registered last is returned for every known id
LookupLatest(client, instance_id) == client.instances[Len(client.instances)]

\* self._instances[instance_id]
Lookup(client, instance_id) ==
    client.instances[CHOOSE i \in 1..Len(client.instances) :
                         client.instances[i].id = instance_id]

\* get_playwright_client(headless).start_browser(timeout_hours, blocked_domains):
\* a caller starts a session on the client directly and is handed the session
start_browser(timeout_hours, blocked_domains, headless) ==
    LET client == get_playwright_client(headless)
        started == _start_browser_async(client, timeout_hours, blocked_domains)
    IN  /\ Len(client.instances) < MaxSessions
        /\ prov_call' = [op |-> "start_browser", instance_id |-> None, environment |-> None,
                         timeout_hours |-> timeout_hours, headless |-> headless,
                     url |-> <<>>]
        /\ _client_instance' = Some(started)
        /\ prov_result' = Returned({Lookup(started, NewId(client))})
        /\ UNCHANGED nonProvVars

\* get_instance(id, config): get_browser_client(headless).get(id)
get(instance_id, headless) ==
    LET client == get_playwright_client(headless)
    IN  /\ prov_call' = [op |-> "get", instance_id |-> Some(instance_id),
                         environment |-> None, timeout_hours |-> None,
                         headless |-> headless, url |-> <<>>]
        /\ _client_instance' = Some(client)
        /\ prov_result' = IF instance_id \notin InstanceIds(client)
                          THEN Raised("ValueError: Instance not found")
                          ELSE Returned({Lookup(client, instance_id)})
        /\ UNCHANGED nonProvVars

\* a page of the i-th session requests a URL: the route of its context decides
\* whether the request is aborted
Request(i, url) ==
    /\ i \in 1..Len(Sessions)
    /\ prov_call' = [op |-> "request", instance_id |-> Some(Sessions[i].id),
                     environment |-> None, timeout_hours |-> None,
                     headless |-> Get(_client_instance).headless, url |-> url]
    /\ prov_result' = Returned({<<"aborted", Aborts(Sessions[i].blocked_domains, url)>>})
    /\ UNCHANGED <<_client_instance, nonProvVars>>

\* get_playwright_client(headless).start_ubuntu(**kwargs)
start_ubuntu(timeout_hours, headless) ==
    /\ prov_call' = [op |-> "start_ubuntu", instance_id |-> None, environment |-> None,
                     timeout_hours |-> timeout_hours, headless |-> headless,
                     url |-> <<>>]
    /\ _client_instance' = Some(get_playwright_client(headless))
    /\ prov_result' = Raised("NotImplementedError")
    /\ UNCHANGED nonProvVars

\* get_playwright_client(headless).start_windows(**kwargs)
start_windows(timeout_hours, headless) ==
    /\ prov_call' = [op |-> "start_windows", instance_id |-> None, environment |-> None,
                     timeout_hours |-> timeout_hours, headless |-> headless,
                     url |-> <<>>]
    /\ _client_instance' = Some(get_playwright_client(headless))
    /\ prov_result' = Raised("NotImplementedError")
    /\ UNCHANGED nonProvVars

\* the argument values the model draws from
StateInstanceIds == {None, Some("abc-123"), Some("uuid-1")}
Environments == {None, Some("web"), Some("ubuntu"), Some("windows"), Some("macos")}
TimeoutArgs == {None, Some(2)}
\* the blocked_domains a direct caller of start_browser passes
BlockedDomainsArgs == {None, Some(<<>>), Some(<< <<"example.com">> >>)}
\* the URLs requested, as sequences of pieces: a denied domain as host, with
\* "www.", as part of a longer host, in the query of another host, and none
Urls ==
    {<<"about:blank">>,
     <<"https://", "example.com", "/">>,
     <<"https://", "maliciousbook.com", "/feed">>,
     <<"http://", "www.", "evilvideos.com">>,
     <<"https://", "not", "shadytok.com", ".example.com">>,
     <<"https://", "example.com", "/?next=", "ilanbigio.com">>,
     <<"https://", "suspiciouspins.com", "/", "darkwebforum.com">>}
\* the identifiers looked up: those uuid4 can have handed out, one it will hand
\* out next, and one it never hands out
LookupIds == {"uuid-" \o ToString(n) : n \in 1..(MaxSessions + 1)} \cup {"abc-123"}

NextProv ==
    \/ \E i \in StateInstanceIds, e \in Environments, t \in TimeoutArgs, h \in BOOLEAN :
           create_vm_instance(i, e, t, h)
    \/ \E t \in TimeoutArgs, h \in BOOLEAN : start_ubuntu(t, h)
    \/ \E t \in TimeoutArgs, h \in BOOLEAN : start_windows(t, h)
    \/ \E t \in TimeoutArgs, b \in BlockedDomainsArgs, h \in BOOLEAN : start_browser(t, b, h)
    \/ \E i \in LookupIds, h \in BOOLEAN : get(i, h)
    \/ \E i \in 1..MaxSessions, u \in Urls : Request(i, u)

SpecProv == Init /\ [][NextProv]_vars

\* BrowserInstance.close on the i-th session: its context and its browser are
\* closed. The session object is the one client._instances refers to, and close
\* does not touch the registry.
close(i) ==
    /\ i \in 1..Len(Sessions)
    /\ ~Sessions[i].closed
    /\ prov_call' = [op |-> "close", instance_id |-> Some(Sessions[i].id),
                     environment |-> None, timeout_hours |-> None,
                     headless |-> Get(_client_instance).headless, url |-> <<>>]
    /\ _client_instance' = Some([Get(_client_instance) EXCEPT !.instances[i].closed = TRUE])
    /\ prov_result' = Returned({})
    /\ UNCHANGED nonProvVars

\* the life of the sessions of a process: provisioning, lookup and close
NextSessions ==
    \/ \E i \in StateInstanceIds, h \in BOOLEAN : create_vm_instance(i, Some("web"), None, h)
    \/ \E b \in BlockedDomainsArgs, h \in BOOLEAN : start_browser(None, b, h)
    \/ \E i \in LookupIds, h \in BOOLEAN : get(i, h)
    \/ \E i \in 1..MaxSessions : close(i)

SpecSessions == Init /\ [][NextSessions]_vars

\* the provisioning step has returned an update with an instance_id and the
\* graph has not yet merged it into the state of the run
Pending ==
    /\ prov_call.op = "create_vm_instance"
    /\ IsNone(prov_result.error)
    /\ prov_result.value # {}
    /\ IsNone(final_state.instance_id)

\* the graph runs the provisioning step on the state of the run
ProvisionStep(environment, timeout_hours, headless) ==
    /\ ~Pending
    /\ create_vm_instance(final_state.instance_id, environment, timeout_hours, headless)

\* the graph merges the update the step returned into the state of the run
ApplyUpdate ==
    /\ Pending
    /\ final_state' = [final_state EXCEPT !.instance_id =
           Some((CHOOSE kv \in prov_result.value : kv[1] = "instance_id")[2])]
    /\ UNCHANGED <<state_report, nonStateVars>>

\* the run ends and the process starts another one, with a fresh state
NewRun ==
    /\ ~Pending
    /\ ~IsNone(final_state.instance_id)
    /\ final_state' = [final_state EXCEPT !.instance_id = None]
    /\ UNCHANGED <<state_report, nonStateVars>>

NextProvision ==
    \/ \E e \in Environments, t \in TimeoutArgs, h \in BOOLEAN : ProvisionStep(e, t, h)
    \/ ApplyUpdate
    \/ NewRun

SpecProvision == Init /\ [][NextProvision]_vars

----------------------------------------------------------------------------
(* report.py: CUAReport.success_rate, duration_seconds and to_dict; a scripted run *)

\* CUAReport.success_rate, as the exact fraction num / den
success_rate(r) ==
    IF r.total_actions = 0
    THEN [num |-> 0, den |-> 1]
    ELSE [num |-> r.successful_actions * 100, den |-> r.total_actions]

\* CUAReport.duration_seconds (a datetime is always truthy)
duration_seconds(r) ==
    IF ~IsNone(r.end_time) THEN Some(Get(r.end_time) - r.start_time) ELSE None

\* datetime.isoformat(): the instant as text
isoformat(t) == "T" \o ToString(t)

\* num / den >= 0 in tenths, rounded to the nearest, a tie to the even one
Tenths(num, den) ==
    LET q   == (10 * num) \div den
        rem == (10 * num) % den
    IN  IF 2 * rem > den THEN q + 1
        ELSE IF 2 * rem < den THEN q
        ELSE IF q % 2 = 0 THEN q ELSE q + 1

\* f"{x:.1f}" for x = num / den
Fixed1(num, den) ==
    LET t == Tenths(IF num < 0 THEN -num ELSE num, den)
    IN  (IF num < 0 THEN "-" ELSE "") \o ToString(t \div 10) \o "." \o ToString(t % 10)

\* CUAReport.to_dict
to_dict(r) ==
    [start_time         |-> isoformat(r.start_time),
     end_time           |-> IF IsNone(r.end_time) THEN None
                            ELSE Some(isoformat(Get(r.end_time))),
     duration_seconds   |-> duration_seconds(r),
     total_actions      |-> r.total_actions,
     successful_actions |-> r.successful_actions,
     failed_actions     |-> r.failed_actions,
     skipped_actions    |-> r.skipped_actions,
     success_rate       |-> Fixed1(success_rate(r).num, success_rate(r).den) \o "%",
     instance_id        |-> r.instance_id,
     final_status       |-> r.final_status,
     error_summary      |-> r.error_summary,
     actions            |-> [i \in 1..Len(r.actions) |->
                                [action_type |-> r.actions[i].action_type,
                                 call_id     |-> r.actions[i].call_id,
                                 status      |-> r.actions[i].status,
                                 timestamp   |-> isoformat(r.actions[i].timestamp),
                                 details     |-> r.actions[i].details,
                                 error       |-> r.actions[i].error,
                                 duration_ms |-> r.actions[i].duration_ms]]]

\* the runs a caller scripts: the action_type and error of each record_action
\* call, then the arguments of finish
Scripts ==
    [records      : SeqsUpTo(ActionTypes \X ErrorArgs, MaxRun),
     final_status : FinishStatusArgs,
     instance_id  : InstanceIdArgs]

\* the call id the caller gives its i-th record_action call
ScriptCallId(i) == "call_" \o ToString(i)

\* generator.start(), the first call of the run
RunStart ==
    /\ IsNone(_report)
    /\ start

\* the next generator.record_action(action_type, call_id, error=error) of the run
RunRecord ==
    /\ ~IsNone(_report)
    /\ IsNone(Get(_report).end_time)
    /\ Recorded < Len(script.records)
    /\ record_action(script.records[Recorded + 1][1], ScriptCallId(Recorded + 1),
                     None, script.records[Recorded + 1][2], None)

\* generator.finish(status, instance_id), once every record has been made
RunFinish ==
    /\ ~IsNone(_report)
    /\ IsNone(Get(_report).end_time)
    /\ Recorded = Len(script.records)
    /\ finish(script.final_status, script.instance_id)

\* generator.get_report().to_dict()
ExportReport ==
    /\ ~IsNone(_report)
    /\ exported' = Some(to_dict(Get(_report)))
    /\ UNCHANGED <<script, reportVars, nonRunVars>>

\* a caller is about to make the calls of some script
RunInit ==
    /\ script \in Scripts
    /\ exported = None

InitRun ==
    /\ GeneratorInit
    /\ ExecIdle
    /\ KeysIdle
    /\ StateInit
    /\ ProvInit
    /\ RunInit
    /\ StreamIdle
    /\ SingletonIdle
    /\ ProducersIdle

NextRun ==
    \/ Tick
    \/ RunStart
    \/ RunRecord
    \/ RunFinish
    \/ ExportReport

SpecRun == InitRun /\ [][NextRun]_vars

\* a caller of the live aggregator records an action; the model follows a
\* report up to MaxActions records
RecordAction(action_type, call_id, details, error, status) ==
    /\ Recorded < MaxActions
    /\ record_action(action_type, call_id, details, error, status)

----------------------------------------------------------------------------
(* browser_adapter.py: get_playwright_client called from several threads. The
   function holds no lock, and the interpreter may switch threads between any
   two of its statements. *)

\* thread t calls get_playwright_client(headless)
Call(t, headless) ==
    /\ pc[t] = "idle"
    /\ pc' = [pc EXCEPT ![t] = "check"]
    /\ headless_arg' = [headless_arg EXCEPT ![t] = headless]
    /\ UNCHANGED <<constructed, client_ref, handed_out, _client_instance, nonSingletonVars>>

\* if _client_instance is None:
CheckIsNone(t) ==
    /\ pc[t] = "check"
    /\ pc' = [pc EXCEPT ![t] = IF IsNone(_client_instance) THEN "assign" ELSE "return"]
    /\ UNCHANGED <<headless_arg, constructed, client_ref, handed_out, _client_instance,
                   nonSingletonVars>>

\* _client_instance = PlaywrightClient(headless=headless)
AssignClient(t) ==
    /\ pc[t] = "assign"
    /\ constructed' = Append(constructed, PlaywrightClient(headless_arg[t]))
    /\ _client_instance' = Some(PlaywrightClient(headless_arg[t]))
    /\ client_ref' = Len(constructed) + 1
    /\ pc' = [pc EXCEPT ![t] = "return"]
    /\ UNCHANGED <<headless_arg, handed_out, nonSingletonVars>>

\* return _client_instance
ReturnClient(t) ==
    /\ pc[t] = "return"
    /\ handed_out' = handed_out \cup {client_ref}
    /\ pc' = [pc EXCEPT ![t] = "idle"]
    /\ UNCHANGED <<headless_arg, constructed, client_ref, _client_instance, nonSingletonVars>>

NextSingleton ==
    \/ \E t \in Threads, h \in BOOLEAN : Call(t, h)
    \/ \E t \in Threads : CheckIsNone(t)
    \/ \E t \in Threads : AssignClient(t)
    \/ \E t \in Threads : ReturnClient(t)

SpecSingleton == Init /\ [][NextSingleton]_vars

----------------------------------------------------------------------------
(* report.py: record_action called by several producer threads on one
   generator. Neither record_action nor add_action holds a lock; "x += 1" on an
   attribute is a read followed by a write, and the interpreter may switch
   threads between any two steps. *)

\* the value of self._report: the object it refers to
Deref(h, ref) == IF ref = 0 THEN None ELSE Some(h[ref])

\* the call id producer t passes
ProducerCallId(t) == "call_" \o ToString(t)

\* thread t calls generator.record_action("click", call_id, error=error)
Produce(t, error) ==
    /\ ppc[t] = "idle"
    /\ ppc' = [ppc EXCEPT ![t] = "check"]
    /\ regs' = [regs EXCEPT ![t].error = error]
    /\ UNCHANGED <<heap, report_ref, _report, _last_action_time, nonProducerVars>>

\* if self._report is None:
CheckReport(t) ==
    /\ ppc[t] = "check"
    /\ ppc' = [ppc EXCEPT ![t] = IF report_ref = 0 THEN "start" ELSE "build"]
    /\ UNCHANGED <<heap, report_ref, regs, _report, _last_action_time, nonProducerVars>>

\* self.start()
StartReport(t) ==
    /\ ppc[t] = "start"
    /\ heap' = Append(heap, CUAReport(clock))
    /\ report_ref' = Len(heap) + 1
    /\ _report' = Deref(heap', report_ref')
    /\ _last_action_time' = Some(clock)
    /\ ppc' = [ppc EXCEPT ![t] = "build"]
    /\ UNCHANGED <<regs, nonProducerVars>>

\* now, duration_ms, status and the ActionRecord; self._report is evaluated
\* for the call of add_action
BuildAction(t) ==
    /\ ppc[t] = "build"
    /\ regs' = [regs EXCEPT
           ![t].action = ActionRecord("click", ProducerCallId(t),
                                      RecordStatus(regs[t].error, None), clock, NoDetails,
                                      regs[t].error,
                                      IF IsNone(_last_action_time) THEN None
                                      ELSE Some((clock - Get(_last_action_time)) * 1000)),
           ![t].target = report_ref]
    /\ ppc' = [ppc EXCEPT ![t] = "append"]
    /\ UNCHANGED <<heap, report_ref, _report, _last_action_time, nonProducerVars>>

\* add_action: self.actions.append(action)
AppendAction(t) ==
    /\ ppc[t] = "append"
    /\ heap' = [heap EXCEPT ![regs[t].target].actions = Append(@, regs[t].action)]
    /\ _report' = Deref(heap', report_ref)
    /\ ppc' = [ppc EXCEPT ![t] = "read_total"]
    /\ UNCHANGED <<report_ref, regs, _last_action_time, nonProducerVars>>

\* add_action: self.total_actions += 1, the read
ReadTotal(t) ==
    /\ ppc[t] = "read_total"
    /\ regs' = [regs EXCEPT ![t].tmp = heap[regs[t].target].total_actions]
    /\ ppc' = [ppc EXCEPT ![t] = "write_total"]
    /\ UNCHANGED <<heap, report_ref, _report, _last_action_time, nonProducerVars>>

\* add_action: self.total_actions += 1, the write
WriteTotal(t) ==
    /\ ppc[t] = "write_total"
    /\ heap' = [heap EXCEPT ![regs[t].target].total_actions = regs[t].tmp + 1]
    /\ _report' = Deref(heap', report_ref)
    /\ ppc' = [ppc EXCEPT ![t] = "read_count"]
    /\ UNCHANGED <<report_ref, regs, _last_action_time, nonProducerVars>>

\* add_action: the counter of the record's status, the read
ReadCount(t) ==
    /\ ppc[t] = "read_count"
    /\ regs' = [regs EXCEPT ![t].tmp =
           IF regs[t].action.status = SUCCESS THEN heap[regs[t].target].successful_actions
           ELSE IF regs[t].action.status = FAILED THEN heap[regs[t].target].failed_actions
           ELSE heap[regs[t].target].skipped_actions]
    /\ ppc' = [ppc EXCEPT ![t] = "write_count"]
    /\ UNCHANGED <<heap, report_ref, _report, _last_action_time, nonProducerVars>>

\* add_action: the counter of the record's status, the write, and the line of
\* error_summary for a failed record with an error
WriteCount(t) ==
    LET r      == heap[regs[t].target]
        action == regs[t].action
    IN  /\ ppc[t] = "write_count"
        /\ heap' = [heap EXCEPT ![regs[t].target] =
               IF action.status = SUCCESS
               THEN [r EXCEPT !.successful_actions = regs[t].tmp + 1]
               ELSE IF action.status = FAILED
               THEN [r EXCEPT !.failed_actions = regs[t].tmp + 1,
                              !.error_summary =
                                  IF TruthyStr(action.error)
                                  THEN Append(@, ErrorLine(action.action_type, Get(action.error)))
                                  ELSE @]
               ELSE [r EXCEPT !.skipped_actions = regs[t].tmp + 1]]
        /\ _report' = Deref(heap', report_ref)
        /\ ppc' = [ppc EXCEPT ![t] = "stamp"]
        /\ UNCHANGED <<report_ref, regs, _last_action_time, nonProducerVars>>

\* self._last_action_time = now; the call returns
StampAndReturn(t) ==
    /\ ppc[t] = "stamp"
    /\ _last_action_time' = Some(regs[t].action.timestamp)
    /\ ppc' = [ppc EXCEPT ![t] = "done"]
    /\ UNCHANGED <<heap, report_ref, regs, _report, nonProducerVars>>

\* the error arguments the producers pass
ProducerErrors == {None, Some("Failed to type")}

NextProducers ==
    \/ \E t \in Producers, e \in ProducerErrors : Produce(t, e)
    \/ \E t \in Producers : CheckReport(t)
    \/ \E t \in Producers : StartReport(t)
    \/ \E t \in Producers : BuildAction(t)
    \/ \E t \in Producers : AppendAction(t)
    \/ \E t \in Producers : ReadTotal(t)
    \/ \E t \in Producers : WriteTotal(t)
    \/ \E t \in Producers : ReadCount(t)
    \/ \E t \in Producers : WriteCount(t)
    \/ \E t \in Producers : StampAndReturn(t)

SpecProducers == Init /\ [][NextProducers]_vars

Next ==
    \/ Tick
    \/ start
    \/ \E t \in ActionTypes, c \in CallIds, d \in DetailsArgs, e \in ErrorArgs, s \in StatusArgs :
           RecordAction(t, c, d, e, s)
    \/ \E s \in FinishStatusArgs, i \in InstanceIdArgs : finish(s, i)

Spec == Init /\ [][Next]_vars

----------------------------------------------------------------------------
(* Claims about the live aggregator, checked under Spec *)

Finished(r) == ~IsNone(r.end_time)

\* C1: in the live aggregator, after every record_action call (and in every
\* other state in which a report exists) the report satisfies
\* total_actions = successful_actions + failed_actions + skipped_actions.
C1_TotalIsSumOfCounts ==
    ~IsNone(_report) =>
        Get(_report).total_actions =
            Get(_report).successful_actions + Get(_report).failed_actions
                + Get(_report).skipped_actions

\* a record_action call has just returned on a report that already holds a
\* failed record, and the record it added was counted as skipped
C1_Witness ==
    /\ last_call.op = "record_action"
    /\ ~IsNone(_report)
    /\ Get(_report).total_actions = 2
    /\ Get(_report).failed_actions = 1
    /\ Get(_report).skipped_actions = 1

\* C2: a finished report never has final_status "completed" while
\* failed_actions > 0.
C2_CompletedImpliesNoFailures ==
    (~IsNone(_report) /\ Finished(Get(_report)) /\ Get(_report).final_status = "completed")
        => Get(_report).failed_actions = 0

----------------------------------------------------------------------------
(* Claims about the action executor, checked under SpecExec *)

Called == ~IsNone(request) /\ outcome # "pending"
Succeeded == ~IsNone(request) /\ outcome = "response"

\* the number of captures among the operations of a call
Captures(ops) == Cardinality({i \in 1..Len(ops) : ops[i] = _take_screenshot})

\* C3: for every action kind outside the dispatch set, whatever the other
\* arguments are, the call fails with the unknown-action error and performs no
\* operation on the session: no pointer event, no keyboard event, no capture.
C3_UnknownActionFailsWithoutEffect ==
    (Called /\ Get(request).action \notin KnownActions)
        => (outcome = "ValueError: Unknown action" /\ events = <<>>)

\* "teleport" has been executed with coordinates, keys, text and a path supplied
C3_Witness ==
    /\ Called
    /\ Get(request).action = "teleport"
    /\ Get(request).coordinates = Some(<<5, 7>>)
    /\ Get(request).keys = Some(<<"ctrl", "a">>)
    /\ ~IsNone(Get(request).text)
    /\ ~IsNone(Get(request).path)
    /\ outcome = "ValueError: Unknown action"

\* the precondition of an action kind, as the dispatch table states it
PreconditionMet(req) ==
    CASE req.action \in {"click_mouse", "double_click", "move_mouse"} ->
             ~IsNone(req.coordinates)
      [] req.action = "drag_mouse" -> ~IsNone(req.path) /\ Len(Get(req.path)) >= 2
      [] req.action = "type_text" -> ~IsNone(req.text)
      [] req.action = "press_key" -> ~IsNone(req.keys)
      [] req.action = "scroll" ->
             ~IsNone(req.coordinates) /\ (~IsNone(req.delta_x) \/ ~IsNone(req.delta_y))
      [] OTHER -> FALSE

\* C4: for every recognized action kind, a successful call performs exactly one
\* capture, the capture comes after every input operation of the call, and when
\* the action's precondition is not met no input operation is issued at all.
C4_OneCaptureAfterTheInputs ==
    (Succeeded /\ Get(request).action \in KnownActions)
        => /\ Captures(events) = 1
           /\ events[Len(events)] = _take_screenshot
           /\ ~PreconditionMet(Get(request)) => events = << _take_screenshot >>

\* a scroll with coordinates but neither delta has returned: a no-op with a capture
C4_Witness ==
    /\ Succeeded
    /\ Get(request).action = "scroll"
    /\ Get(request).coordinates = Some(<<5, 7>>)
    /\ IsNone(Get(request).delta_x) /\ IsNone(Get(request).delta_y)
    /\ events = << _take_screenshot >>

\* C6: press_key with ["ctrl", "a"] is issued as the single key-press "Meta+a";
\* press_key with ["a", "b"] is issued as two key-presses, "a" then "b".
C6_ModifierKeysAreOneChord ==
    (Succeeded /\ Get(request).action = "press_key")
        => /\ Get(request).keys = Some(<<"ctrl", "a">>)
                => events = << KeyboardPress("Meta+a"), _take_screenshot >>
           /\ Get(request).keys = Some(<<"a", "b">>)
                => events = << KeyboardPress("a"), KeyboardPress("b"), _take_screenshot >>

\* move to point 1, press, move to points 2..n in path order, release, capture
DragSequence(path) ==
    [i \in 1..(Len(path) + 3) |->
        IF i = 1 THEN MouseMove(path[1][1], path[1][2])
        ELSE IF i = 2 THEN MouseDown
        ELSE IF i <= Len(path) + 1 THEN MouseMove(path[i - 1][1], path[i - 1][2])
        ELSE IF i = Len(path) + 2 THEN MouseUp
        ELSE _take_screenshot]

\* C9: a successful drag over a path of n >= 2 points issues exactly: move to
\* point 1, button press, move to point 2, ..., move to point n, button release,
\* and then the capture.
C9_DragVisitsEveryPointInOrder ==
    (Succeeded /\ Get(request).action = "drag_mouse"
        /\ ~IsNone(Get(request).path) /\ Len(Get(request).path[1]) >= 2)
        => events = DragSequence(Get(request).path[1])

\* the drag over [[0,0],[10,10],[20,5]] has returned with the stated sequence
C9_Witness ==
    /\ Succeeded
    /\ Get(request).action = "drag_mouse"
    /\ Get(request).path = Some(<< <<0, 0>>, <<10, 10>>, <<20, 5>> >>)
    /\ events = << <<"mouse.move", 0, 0>>, <<"mouse.down">>, <<"mouse.move", 10, 10>>,
                   <<"mouse.move", 20, 5>>, <<"mouse.up">>, <<"page.screenshot">> >>

----------------------------------------------------------------------------
(* Claims about key translation, checked under SpecKeys *)

\* spellings of one key name that differ only in letter case
CaseClasses ==
    {{"Return", "return", "RETURN"}, {"Enter", "enter"},
     {"BackSpace", "Backspace", "backspace"}, {"Tab", "tab", "TAB"},
     {"Escape", "escape"}, {"Page_Up", "page_up"}, {"Up", "up", "UP"},
     {"Meta_L", "meta_l"}, {"ctrl", "CTRL"}, {"Control", "control"},
     {"shift", "Shift"}, {"a", "A"}, {"F1", "f1"}}
DifferOnlyInCase(a, b) == \E c \in CaseClasses : a \in c /\ b \in c
CtrlAliases == {"CTRL", "ctrl", "Control"}

\* C7: key translation is case-insensitive and maps the ctrl aliases to one
\* result: two inputs that differ only in letter case translate to the same
\* backend key name, and "CTRL", "ctrl" and "Control" translate to the same name.
C7_TranslationIgnoresCase ==
    \A i, j \in 1..Len(key_in) :
        (DifferOnlyInCase(key_in[i], key_in[j])
            \/ (key_in[i] \in CtrlAliases /\ key_in[j] \in CtrlAliases))
        => key_out[i] = key_out[j]

\* C8: key translation is idempotent, translate(translate(k)) = translate(k),
\* and a name that is not recognized is returned unchanged.
C8_TranslationIdempotentWithPassthrough ==
    /\ \A i \in 1..Len(key_in) :
           key_in[i] \notin DOMAIN key_map => key_out[i] = key_in[i]
    /\ \A i, j \in 1..Len(key_in) :
           key_in[j] = key_out[i] => key_out[j] = key_out[i]

\* "Page_Up" was translated to "PageUp", and the result, a name key_map does
\* not hold, was translated again
C8_Witness ==
    /\ key_in = <<"Page_Up", "PageUp">>
    /\ key_out = <<"PageUp", "PageUp">>

----------------------------------------------------------------------------
(* Claims about generate_report_from_state, checked under SpecState *)

\* the positions <<m, j>> of the computer_call outputs carrying call id c
CallsFor(messages, c) ==
    UNION {{<<m, j>> : j \in {k \in 1..Len(messages[m].tool_outputs) :
                                  /\ messages[m].has_attrs
                                  /\ messages[m].tool_outputs[k].type = "computer_call"
                                  /\ messages[m].tool_outputs[k].call_id = Some(c)}} :
           m \in 1..Len(messages)}

\* the positions, after message p, of the computer_call_output tool messages
\* that carry an error for call id c
ErrorsFor(messages, c, p) ==
    {q \in (p + 1)..Len(messages) :
        /\ messages[q].has_attrs
        /\ messages[q].type = "tool"
        /\ messages[q].kind = Some("computer_call_output")
        /\ ~IsNone(messages[q].error) /\ Get(messages[q].error) # ""
        /\ messages[q].tool_call_id = Some(c)}

Largest(S) == CHOOSE x \in S : \A y \in S : y <= x

\* C5: when the history holds exactly one computer_call output with call id c,
\* followed later by a computer_call_output tool message carrying an error for c,
\* the report of generate_report_from_state holds exactly one record with call
\* id c, and that record is failed and carries the error text (of the last such
\* message).
C5_CallThenErrorIsOneFailedRecord ==
    ~IsNone(state_report) =>
        \A c \in {"c1", "c2"} :
            LET messages == final_state.messages
                calls    == CallsFor(messages, c)
                p        == (CHOOSE x \in calls : TRUE)[1]
                actions  == Get(state_report).actions
                records  == {i \in 1..Len(actions) : actions[i].call_id = c}
            IN  (Cardinality(calls) = 1 /\ ErrorsFor(messages, c, p) # {})
                    => /\ Cardinality(records) = 1
                       /\ \A i \in records :
                              /\ actions[i].status = FAILED
                              /\ actions[i].error =
                                     messages[Largest(ErrorsFor(messages, c, p))].error

\* the report of the history [computer_call c1, computer_call_output error for c1]
C5_Witness ==
    /\ ~IsNone(state_report)
    /\ final_state.messages =
           << AIMessage(<<CallC1>>),
              ToolMessage(Some("computer_call_output"), Some("E1"), Some("c1")) >>
    /\ Len(Get(state_report).actions) = 1
    /\ Get(state_report).actions[1].call_id = "c1"
    /\ Get(state_report).actions[1].status = FAILED
    /\ Get(state_report).actions[1].error = Some("E1")

----------------------------------------------------------------------------
(* Claims about provisioning, checked under SpecProv *)

\* the last provisioning call asked for a session of kind "ubuntu"
UbuntuRequested ==
    \/ prov_call.op = "create_vm_instance" /\ prov_call.environment = Some("ubuntu")
    \/ prov_call.op = "start_ubuntu"

IssuedId ==
    IF prov_call.op = "create_vm_instance" /\ IsNone(prov_result.error)
    THEN {pair[2] : pair \in {q \in prov_result.value : q[1] = "instance_id"}}
    ELSE IF prov_call.op = "start_browser" /\ IsNone(prov_result.error)
    THEN {session.id : session \in prov_result.value}
    ELSE {}

\* C11: after any sequence of provisioning calls, the registry holds exactly the
\* identifiers the provisioning calls returned, each with the session registered
\* under it; get(id) returns that session for each of them and fails with the
\* session-not-found error for every other id, and leaves the registry as it
\* was in both cases.
C11_GetReturnsRegisteredSessionOrFails ==
    [][/\ Registry' = Registry \cup IssuedId'
       /\ SubSeq(Sessions', 1, Len(Sessions)) = Sessions
       /\ prov_call'.op = "get" =>
              /\ Sessions' = Sessions
              /\ LET id == Get(prov_call'.instance_id)
                     registered == {i \in 1..Len(Sessions) : Sessions[i].id = id}
                 IN  IF id \in Registry
                     THEN /\ Cardinality(registered) = 1
                          /\ \A i \in registered : prov_result' = Returned({Sessions[i]})
                     ELSE prov_result' = Raised("ValueError: Instance not found")]_vars

\* two sessions are registered and get was asked for the first of them
C11_Witness ==
    /\ prov_call.op = "get"
    /\ prov_call.instance_id = Some("uuid-1")
    /\ Registry = {"uuid-1", "uuid-2"}
    /\ prov_result = Returned({Sessions[1]})
----------------------------------------------------------------------------
(* Claims about the exported document, checked under SpecRun *)

\* the positions of the scripted calls that carry a non-empty error
ScriptedFailures == {i \in 1..Len(script.records) : TruthyStr(script.records[i][2])}

\* C12: for a run start() -> n record_action calls of which k carry a non-empty
\* error and none passes an explicit status -> finish(S), the exported document
\* has total_actions = n, failed_actions = k, successful_actions = n - k,
\* final_status = S, an error_summary of exactly k entries and an actions list
\* of length n in recording order.
C12_ExportedDocumentMatchesRun ==
    (~IsNone(exported) /\ ~IsNone(Get(exported).end_time)) =>
        LET doc == Get(exported)
            n   == Len(script.records)
            k   == Cardinality(ScriptedFailures)
        IN  /\ doc.total_actions = n
            /\ doc.failed_actions = k
            /\ doc.successful_actions = n - k
            /\ doc.final_status = script.final_status
            /\ Len(doc.error_summary) = k
            /\ Len(doc.actions) = n
            /\ \A i \in 1..n :
                   /\ doc.actions[i].call_id = ScriptCallId(i)
                   /\ doc.actions[i].action_type = script.records[i][1]
                   /\ doc.actions[i].error = script.records[i][2]

\* the stated case: three records, the second with an error, then
\* finish("completed_with_errors"), exported
C12_Witness ==
    /\ ~IsNone(exported)
    /\ script.records = << <<"click", None>>, <<"type_text", Some("Failed to type")>>,
                           <<"click", None>> >>
    /\ script.final_status = "completed_with_errors"
    /\ Get(exported).total_actions = 3
    /\ Get(exported).failed_actions = 1
    /\ Get(exported).success_rate = "66.7%"
    /\ Get(exported).final_status = "completed_with_errors"
    /\ Get(exported).error_summary = << "type_text: Failed to type" >>
----------------------------------------------------------------------------
(* Claims about success_rate *)

\* success_rate is 0 on an empty report and successful / total * 100 otherwise
RateIsQuotient(r) ==
    LET rate == success_rate(r)
    IN  /\ rate.den > 0
        /\ r.total_actions = 0 => rate.num = 0
        /\ r.total_actions # 0 =>
               rate.num * r.total_actions = r.successful_actions * 100 * rate.den

\* 0 <= success_rate <= 100
RateInRange(r) ==
    LET rate == success_rate(r)
    IN  0 <= rate.num /\ rate.num <= 100 * rate.den

\* C13: success_rate is 0 when total_actions = 0 and equals
\* successful_actions / total_actions * 100 otherwise, for every reachable
\* report; it therefore lies between 0 and 100. Stated here for the reports of
\* generate_report_from_state.
C13_SuccessRateIsQuotientWithinRange ==
    ~IsNone(state_report) =>
        RateIsQuotient(Get(state_report)) /\ RateInRange(Get(state_report))

\* the formula alone holds for the reports of generate_report_from_state
C13_QuotientOfStateReport ==
    ~IsNone(state_report) => RateIsQuotient(Get(state_report))

\* formula and range both hold for every report of the live aggregator
C13_LiveReportWithinRange ==
    ~IsNone(_report) => RateIsQuotient(Get(_report)) /\ RateInRange(Get(_report))
----------------------------------------------------------------------------
(* Claims about the status of a record, checked under Spec *)

\* the record the last record_action call appended
LastRecord == Get(_report).actions[Len(Get(_report).actions)]

\* C14: with an explicit status the record has that status whatever
\* the error argument is; otherwise the record is failed if and only if an
\* error string is supplied, and success if none is.
C14_FailedIffErrorSupplied ==
    last_call.op = "record_action" =>
        IF ~IsNone(last_call.status)
        THEN LastRecord.status = Get(last_call.status)
        ELSE /\ LastRecord.status = FAILED <=> ~IsNone(last_call.error)
             /\ IsNone(last_call.error) => LastRecord.status = SUCCESS

\* what record_action does: the explicit status wins; without one the record is
\* failed if and only if the error is a non-empty string, and success when the
\* error is None or the empty string
C14_FailedIffNonEmptyErrorSupplied ==
    last_call.op = "record_action" =>
        IF ~IsNone(last_call.status)
        THEN LastRecord.status = Get(last_call.status)
        ELSE /\ LastRecord.status = FAILED <=> TruthyStr(last_call.error)
             /\ ~TruthyStr(last_call.error) => LastRecord.status = SUCCESS

\* record_action(error="") without a status has appended a success record that
\* carries the empty error, after a call with an error and an explicit SUCCESS
C14_EmptyErrorRecordedAsSuccess ==
    /\ last_call = [op |-> "record_action", error |-> Some(""), status |-> None]
    /\ Len(Get(_report).actions) = 2
    /\ Get(_report).actions[1].error = Some("Failed to type")
    /\ Get(_report).actions[1].status = SUCCESS
    /\ LastRecord.status = SUCCESS
    /\ LastRecord.error = Some("")
----------------------------------------------------------------------------
(* Claims about error_summary *)

\* the failed records of a report, in the order of the action list
FailedRecords(r) == SelectSeq(r.actions, LAMBDA a : a.status = FAILED)

\* error_summary holds one line per failed record, in order
OneLinePerFailure(r) ==
    /\ Len(r.error_summary) = r.failed_actions
    /\ Len(r.error_summary) = Len(FailedRecords(r))
    /\ \A i \in 1..Len(r.error_summary) :
           /\ ~IsNone(FailedRecords(r)[i].error)
           /\ r.error_summary[i] =
                  ErrorLine(FailedRecords(r)[i].action_type, Get(FailedRecords(r)[i].error))

\* C15: in every reachable report, error_summary holds exactly one line per
\* failed action, in the order in which the failures were recorded: its length
\* equals failed_actions and its i-th line belongs to the i-th failed record,
\* records recorded as failed through an explicit status included. Stated here
\* for the reports of the live aggregator.
C15_ErrorSummaryHasOneLinePerFailure ==
    ~IsNone(_report) => OneLinePerFailure(Get(_report))

\* the same for the reports of generate_report_from_state, records flipped to
\* failed by the correction included
C15_StateReportHasOneLinePerFailure ==
    ~IsNone(state_report) => OneLinePerFailure(Get(state_report))
----------------------------------------------------------------------------
(* Claims about the end of a run, checked under Spec *)

\* what finish fixes in a report: the end time, the terminal status, the session
\* identifier, the counts and the action list
Finalized(r) ==
    <<r.end_time, r.final_status, r.instance_id, r.total_actions, r.successful_actions,
      r.failed_actions, r.skipped_actions, r.actions>>

\* C16: a report is finalized exactly once: once finish has set the end time
\* and the terminal status, no later finish or record_action on the same run
\* changes the end time, the terminal status, the session identifier, the
\* counts or the action list.
C16_FinishedReportIsFrozen ==
    [][(/\ ~IsNone(_report)
        /\ Finished(Get(_report))
        /\ last_call'.op \in {"finish", "record_action"})
           => Finalized(Get(_report')) = Finalized(Get(_report))]_vars
----------------------------------------------------------------------------
(* Claims about the two reconstruction paths, checked under SpecPaths *)

\* the number of records a report holds for call id c
RecordsFor(r, c) == Cardinality({i \in 1..Len(r.actions) : r.actions[i].call_id = c})

\* C17: the two reconstruction paths are equivalent: for one and the same run
\* (each computer_call with call id c is a call_model update followed by a
\* take_computer_action update for c in the stream, and an AI message followed
\* by a computer_call_output tool message for c in the final state),
\* from_stream_updates and generate_report_from_state produce reports with the
\* same total, success and failed counts, the same number of records per call
\* id and the same final_status.
C17_StreamAndStateReportsAgree ==
    (~IsNone(stream_report) /\ ~IsNone(state_report)) =>
        LET a == Get(stream_report)
            b == Get(state_report)
        IN  /\ a.total_actions = b.total_actions
            /\ a.successful_actions = b.successful_actions
            /\ a.failed_actions = b.failed_actions
            /\ \A c \in StreamCallIds : RecordsFor(a, c) = RecordsFor(b, c)
            /\ a.final_status = b.final_status

\* what the two paths do agree on for a run whose call ids are distinct: the
\* failed count and the final status
C17_PathsAgreeOnFailures ==
    (/\ ~IsNone(stream_report)
     /\ ~IsNone(state_report)
     /\ \A c \in StreamCallIds : RecordsFor(Get(state_report), c) <= 1) =>
        /\ Get(stream_report).failed_actions = Get(state_report).failed_actions
        /\ Get(stream_report).final_status = Get(state_report).final_status
----------------------------------------------------------------------------
(* Claims about the deny-list, checked under SpecProv *)

\* the fixed deny-list, as bare domains
DenyList ==
    {"maliciousbook.com", "evilvideos.com", "darkwebforum.com", "shadytok.com",
     "suspiciouspins.com", "ilanbigio.com"}

\* the session registered under an identifier
SessionOf(id) == Sessions[CHOOSE i \in 1..Len(Sessions) : Sessions[i].id = id]

\* the session was started with every entry of the deny-list and nothing else
HasDenyList(session) ==
    /\ ~IsNone(session.blocked_domains)
    /\ {Get(session.blocked_domains)[i] : i \in 1..Len(Get(session.blocked_domains))}
           = {<<d>> : d \in DenyList}

\* C18: every web session provisioned through create_vm_instance is started
\* with the complete fixed deny-list as bare domains, whatever the caller's
\* state and configuration contain, and in such a session a request is aborted
\* if and only if its URL contains at least one deny-list entry as a substring.
C18_DenyListAppliedToEveryWebSession ==
    [][/\ (prov_call'.op = "create_vm_instance" /\ _client_instance' # _client_instance)
           => \A id \in IssuedId' : HasDenyList(SessionOf(id)')
       /\ (prov_call'.op = "request" /\ HasDenyList(SessionOf(Get(prov_call'.instance_id))))
           => (prov_result' = Returned({<<"aborted", TRUE>>})
                  <=> \E k \in 1..Len(prov_call'.url) : prov_call'.url[k] \in DenyList)]_vars

\* in a session started with the deny-list, a request to another host that names
\* a denied domain in its query was aborted
C18_Witness ==
    /\ prov_call.op = "request"
    /\ prov_call.instance_id = Some("uuid-1")
    /\ prov_call.url = <<"https://", "example.com", "/?next=", "ilanbigio.com">>
    /\ HasDenyList(Sessions[1])
    /\ prov_result = Returned({<<"aborted", TRUE>>})
----------------------------------------------------------------------------
(* Claims about the client singleton, checked under SpecSingleton *)

\* C19: at most one PlaywrightClient is ever constructed per process: under any
\* number of get_playwright_client calls, calls from concurrent threads
\* interleaved between the "is None" check and the assignment included, every
\* call returns the same instance, the one the first call constructed.
C19_OneClientPerProcess ==
    /\ Len(constructed) <= 1
    /\ handed_out \subseteq {1}

\* what holds without a lock: a call returns the client _client_instance held
\* when it returned, and there are never more clients than calling threads
C19_AtMostOneClientPerThread ==
    /\ Len(constructed) <= MaxThreads
    /\ handed_out \subseteq 1..Len(constructed)
    /\ client_ref = Len(constructed)
----------------------------------------------------------------------------
(* Claims about concurrent producers, checked under SpecProducers *)

\* the producers whose record_action call has returned
ReturnedProducers == {t \in Producers : ppc[t] = "done"}

\* C20: when several producers call record_action on the same generator
\* concurrently, the appends are serialized: after all calls have returned,
\* total_actions equals the number of calls, equals the length of the action
\* list, and equals successful_actions + failed_actions + skipped_actions,
\* under every interleaving of the counter read-modify-write steps.
C20_ConcurrentAppendsAreSerialized ==
    (ReturnedProducers # {} /\ \A t \in Producers : ppc[t] \in {"idle", "done"}) =>
        /\ ~IsNone(_report)
        /\ Get(_report).total_actions = Cardinality(ReturnedProducers)
        /\ Get(_report).total_actions = Len(Get(_report).actions)
        /\ Get(_report).total_actions =
               Get(_report).successful_actions + Get(_report).failed_actions
                   + Get(_report).skipped_actions

\* with a single producer the statement holds: a call that runs alone leaves
\* one more record and consistent counts
C20_LoneProducerIsConsistent ==
    (Cardinality({t \in Producers : ppc[t] # "idle"}) = 1 /\ ReturnedProducers # {}) =>
        /\ Get(_report).total_actions = 1
        /\ Len(Get(_report).actions) = 1
        /\ Get(_report).successful_actions + Get(_report).failed_actions = 1

----------------------------------------------------------------------------
(* Claims about the correction step of generate_report_from_state, checked
   under SpecState *)

\* message is a computer_call_output tool message that carries an error
IsErrorOutput(message) ==
    /\ message.has_attrs
    /\ message.type = "tool"
    /\ message.kind = Some("computer_call_output")
    /\ TruthyStr(message.error)

\* the positions of the records of r with the call id that are still successful
StillSuccessful(r, call_id) ==
    {i \in Matching(r, call_id) : r.actions[i].status = SUCCESS}

\* r with its most recent still-successful record of the call id flipped to
\* failed, or r itself when there is none
FlipMostRecentSuccess(r, call_id, error) ==
    IF StillSuccessful(r, call_id) = {} THEN r
    ELSE LET i == Largest(StillSuccessful(r, call_id))
         IN  [r EXCEPT !.actions[i].status = FAILED,
                       !.actions[i].error = Some(error),
                       !.successful_actions = @ - 1,
                       !.failed_actions = @ + 1,
                       !.error_summary = Append(@, ErrorLine(r.actions[i].action_type, error))]

\* the report as generate_report_from_state holds it after the first k messages
ReportAfter(k) ==
    ProcessMessages([CUAReport(clock) EXCEPT !.instance_id = final_state.instance_id],
                    SubSeq(final_state.messages, 1, k), 1, clock)

\* C21: when a computer_call_output tool message carries an error for call id
\* c, the correction flips the most recent record with call id c that is still
\* successful, and only that one; when there is no such record the report is
\* left as it was.
C21_CorrectionFlipsMostRecentSuccess ==
    ~IsNone(state_report) =>
        \A k \in 1..Len(final_state.messages) :
            LET message == final_state.messages[k]
            IN  IsErrorOutput(message) =>
                    ReportAfter(k) = FlipMostRecentSuccess(ReportAfter(k - 1),
                                                           message.tool_call_id,
                                                           Get(message.error))

\* what the correction does when exactly one record carries the call id and it
\* is still successful: it flips that record
C21_LoneSuccessfulRecordIsFlipped ==
    ~IsNone(state_report) =>
        \A k \in 1..Len(final_state.messages) :
            LET message == final_state.messages[k]
                before  == ReportAfter(k - 1)
            IN  (/\ IsErrorOutput(message)
                 /\ Cardinality(Matching(before, message.tool_call_id)) = 1
                 /\ StillSuccessful(before, message.tool_call_id) # {})
                    => ReportAfter(k) = FlipMostRecentSuccess(before, message.tool_call_id,
                                                              Get(message.error))

\* a second error output for c1 arrives when the only record of c1 has failed
C21_SecondErrorChangesFailedRecord ==
    /\ ~IsNone(state_report)
    /\ final_state.messages =
           << AIMessage(<<CallC1>>),
              ToolMessage(Some("computer_call_output"), Some("E1"), Some("c1")),
              ToolMessage(Some("computer_call_output"), Some("E2"), Some("c1")) >>
    /\ Get(state_report).actions[1].error = Some("E2")
    /\ Get(state_report).successful_actions = -1

----------------------------------------------------------------------------
(* Claims about from_stream_updates on arbitrary streams, checked under
   SpecStream *)

\* the update is a dict that holds one of the three step names
Recognized(update) ==
    /\ update.is_dict
    /\ \/ ~IsNone(update.take_computer_action)
       \/ ~IsNone(update.call_model)
       \/ ~IsNone(update.create_vm_instance)

\* the stream without the updates that are not recognized
RecognizedOnly(stream) == SelectSeq(stream, Recognized)

\* the report as from_stream_updates holds it after the first k updates
StreamReportAfter(k) == ProcessUpdates(CUAReport(clock), SubSeq(updates, 1, k), 1, clock)

\* C22: an update that is not a dict, or a dict with none of the step names
\* take_computer_action / call_model / create_vm_instance, raises no error and
\* leaves the report as it was; the report of the stream is the report of the
\* stream without those updates.
C22_UnrecognizedUpdatesAreIgnored ==
    /\ \A k \in 1..Len(updates) :
           ~Recognized(updates[k]) =>
               /\ ~UpdateRaises(updates[k])
               /\ (\A j \in 1..k : ~UpdateRaises(updates[j]))
                      => StreamReportAfter(k) = StreamReportAfter(k - 1)
    /\ ~IsNone(stream_report) =>
           /\ \A i \in 1..Len(RecognizedOnly(updates)) : ~UpdateRaises(RecognizedOnly(updates)[i])
           /\ Get(stream_report) = from_stream_updates(RecognizedOnly(updates), clock)
    /\ ~IsNone(stream_error) =>
           \E i \in 1..Len(RecognizedOnly(updates)) : UpdateRaises(RecognizedOnly(updates)[i])

\* the report of a stream that holds a non-dict update, a dict of another step
\* and one take_computer_action update
C22_Witness ==
    /\ ~IsNone(stream_report)
    /\ Len(updates) = 3
    /\ \E i, j \in 1..3 :
           /\ updates[i] \in NotADict
           /\ updates[j] \in OtherStep
    /\ Len(RecognizedOnly(updates)) = 1
    /\ Len(Get(stream_report).actions) = 1
    /\ Get(stream_report).actions[1].action_type = "computer_action"

----------------------------------------------------------------------------
(* Claims about the two reconstructors, checked under SpecReconstruct *)

\* the report has its end time set, and its terminal status is "completed"
\* exactly when it counts no failure and "completed_with_errors" otherwise
StatusMatchesFailures(r) ==
    /\ ~IsNone(r.end_time)
    /\ r.final_status \in {"completed", "completed_with_errors"}
    /\ r.final_status = "completed" <=> r.failed_actions = 0

\* C23: the report returned by from_stream_updates and the report returned by
\* generate_report_from_state have final_status "completed" if and only if
\* failed_actions is 0, "completed_with_errors" otherwise, and have their end
\* time set.
C23_TerminalStatusFollowsFailureCount ==
    /\ ~IsNone(stream_report) => StatusMatchesFailures(Get(stream_report))
    /\ ~IsNone(state_report) => StatusMatchesFailures(Get(state_report))

\* both reconstructors have returned: the history held a failed call, the
\* stream held nothing
C23_Witness ==
    /\ ~IsNone(state_report)
    /\ Get(state_report).failed_actions > 0
    /\ Get(state_report).final_status = "completed_with_errors"
    /\ ~IsNone(Get(state_report).end_time)
    /\ ~IsNone(stream_report)
    /\ Get(stream_report).failed_actions = 0
    /\ Get(stream_report).final_status = "completed"
    /\ ~IsNone(Get(stream_report).end_time)

\* from_stream_updates has returned the report of a stream with a failed action
C23_StreamWithFailure ==
    /\ ~IsNone(stream_report)
    /\ Len(updates) = MaxUpdates
    /\ Get(stream_report).failed_actions > 0
    /\ Get(stream_report).final_status = "completed_with_errors"

----------------------------------------------------------------------------
(* Claims about BrowserInstance.computer, checked under SpecComputer *)

\* the operations a call of the request awaits when nothing fails
PlannedOps(req) == WithCapture(Dispatch(req).ops)

\* C24: if a pointer or keyboard operation of an action fails, the call fails
\* with that error, issues none of the remaining input events of the action,
\* performs no capture and returns no outcome.
C24_TransportFailurePropagates ==
    (Called /\ faults # <<>>) =>
        /\ outcome = faults[1]
        /\ Len(faults) = 1
        /\ Len(events) < Len(PlannedOps(Get(request)))
        /\ events = SubSeq(PlannedOps(Get(request)), 1, Len(events))
        /\ Captures(events) = 0

\* what holds for every error class: the operations issued before the first
\* failure are the planned ones, in order
C24_EventsBeforeFailureArePlanned ==
    (Called /\ faults # <<>>) =>
        \E n \in 0..(Len(PlannedOps(Get(request))) - 1) :
            /\ n <= Len(events)
            /\ SubSeq(events, 1, n) = SubSeq(PlannedOps(Get(request)), 1, n)

\* a drag whose mouse.down raised RuntimeError was run again and returned
C24_FailedDragIsRunAgain ==
    /\ Called
    /\ Get(request).action = "drag_mouse"
    /\ Get(request).path = Some(<< <<0, 0>>, <<10, 10>>, <<20, 5>> >>)
    /\ faults = <<"RuntimeError">>
    /\ outcome = "response"
    /\ events = << MouseMove(0, 0) >> \o PlannedOps(Get(request))

----------------------------------------------------------------------------
(* Claims about the counters of every report, checked under SpecReconstruct,
   Spec and SpecStream *)

\* the number of records of r with the status
CountOf(r, status) ==
    Cardinality({i \in 1..Len(r.actions) : r.actions[i].status = status})

\* the counters of r are the numbers of its records, by status and in total
CountersMatchRecords(r) ==
    /\ r.total_actions = Len(r.actions)
    /\ r.successful_actions = CountOf(r, SUCCESS)
    /\ r.failed_actions = CountOf(r, FAILED)
    /\ r.skipped_actions = CountOf(r, SKIPPED)
    /\ r.successful_actions >= 0
    /\ r.failed_actions >= 0
    /\ r.skipped_actions >= 0

\* C25: in every report of the live aggregator, of from_stream_updates and of
\* generate_report_from_state, successful_actions, failed_actions and
\* skipped_actions are the numbers of records with status success, failed and
\* skipped, total_actions is the number of records, and no counter is negative.
C25_CountersAgreeWithRecords ==
    /\ ~IsNone(_report) => CountersMatchRecords(Get(_report))
    /\ ~IsNone(stream_report) => CountersMatchRecords(Get(stream_report))
    /\ ~IsNone(state_report) => CountersMatchRecords(Get(state_report))

\* the counters agree in the reports built through add_action alone
C25_LiveAndStreamCountersAgree ==
    /\ ~IsNone(_report) => CountersMatchRecords(Get(_report))
    /\ ~IsNone(stream_report) => CountersMatchRecords(Get(stream_report))

\* the report of a history with one call and two error outputs for it
C25_NegativeSuccessCount ==
    /\ ~IsNone(state_report)
    /\ Len(Get(state_report).actions) = 1
    /\ Get(state_report).successful_actions = -1
    /\ Get(state_report).failed_actions = 2

----------------------------------------------------------------------------
(* Claims about the life of sessions, checked under SpecSessions *)

\* the last call was a get that returned a session
GetReturned == prov_call.op = "get" /\ IsNone(prov_result.error)

\* C26: the registry holds only live sessions: once close(session) has
\* completed, get(session.id) fails with the not-found error, so no session that
\* get returns has been closed.
C26_GetNeverReturnsClosedSession ==
    /\ GetReturned => \A session \in prov_result.value : ~session.closed
    /\ \A i \in 1..Len(Sessions) :
           (prov_call.op = "get" /\ prov_call.instance_id = Some(Sessions[i].id)
              /\ Sessions[i].closed)
               => prov_result = Raised("ValueError: Instance not found")

\* what get does hold to after a close: it returns the session registered under
\* the id, closed or not, and fails for an id that was never issued
C26_GetReturnsRegisteredSessionClosedOrNot ==
    prov_call.op = "get" =>
        IF Get(prov_call.instance_id) \in Registry
        THEN prov_result = Returned({Lookup(Get(_client_instance), Get(prov_call.instance_id))})
        ELSE prov_result = Raised("ValueError: Instance not found")

\* get("uuid-1") has returned the first session after it was closed
C26_ClosedSessionReturned ==
    /\ GetReturned
    /\ prov_call.instance_id = Some("uuid-1")
    /\ \E session \in prov_result.value : session.id = "uuid-1" /\ session.closed

----------------------------------------------------------------------------
(* Claims about the provisioning step within a run, checked under
   SpecProvision *)

\* the step is one in which create_vm_instance ran on the state of the run
ProvisionStepTaken ==
    /\ prov_call'.op = "create_vm_instance"
    /\ final_state' = final_state
    /\ prov_call'.instance_id = final_state.instance_id

\* C27: when the state carries an instance_id, create_vm_instance returns an
\* empty update, starts no browser and leaves the registry as it is, so that a
\* run whose state is fed the step's result provisions one session only; when
\* the state carries none and the environment is "web", the step registers
\* exactly one new session and returns its id with the stream locator
\* "local://browser/<id>".
C27_ProvisioningIsNoOpOnceProvisioned ==
    /\ [](~IsNone(final_state.instance_id) => Get(final_state.instance_id) \in Registry)
    /\ [][/\ Len(Sessions') > Len(Sessions) => IsNone(final_state.instance_id)
          /\ ProvisionStepTaken =>
                /\ ~IsNone(final_state.instance_id) =>
                       /\ prov_result' = Returned({})
                       /\ _client_instance' = _client_instance
                /\ (IsNone(final_state.instance_id) /\ prov_call'.environment = Some("web")) =>
                       /\ Len(Sessions') = Len(Sessions) + 1
                       /\ SubSeq(Sessions', 1, Len(Sessions)) = Sessions
                       /\ LET id == Sessions'[Len(Sessions')].id
                          IN  /\ id \notin Registry
                              /\ prov_result' =
                                     Returned({<<"instance_id", id>>,
                                               <<"stream_url", "local://browser/" \o id>>})]_vars

\* the step has run again on a state that carries the id of the run's session:
\* it returned an empty update and the registry holds that one session
C27_Witness ==
    /\ prov_call.op = "create_vm_instance"
    /\ prov_call.instance_id = Some("uuid-1")
    /\ prov_call.environment = Some("web")
    /\ final_state.instance_id = Some("uuid-1")
    /\ prov_result = Returned({})
    /\ Len(Sessions) = 1
    /\ Sessions[1].id = "uuid-1"

====
